---------------------------- MODULE Spec2Model ----------------------------
(***************************************************************************)
(* A model of the dotstarter-sdk transaction engine.                       *)
(*                                                                         *)
(*  - Spec       : one submission (transfer, bond, bondExtra, nominate,    *)
(*                 unbond, withdrawUnbonded, vote, submitTreasuryProposal) *)
(*                 from the call to signAndSend to its outcome, driven by  *)
(*                 the status notifications the node delivers.             *)
(*  - AmountSpec : the amount conversion every amount-taking operation     *)
(*                 performs before it builds its call.                     *)
(*  - GovSpec    : getActiveProposals and getReferendumDetails over the    *)
(*                 current and the legacy governance storage.              *)
(*  - StakingSpec: getStakingInfo over the staking storage of an account.  *)
(*  - ConcSpec   : two submissions in flight with interleaved streams.     *)
(*  - WalletSpec : getBalance over the account data and chain properties.  *)
(*  - FacadeSpec : connect(), disconnect(), lazy reconnection and the      *)
(*                 manager accessors of DotStarter, one call at a time.    *)
(*  - ChainSpec  : concurrent connect() / getApi() calls on one            *)
(*                 ChainManager, interleaved at their awaits.              *)
(***************************************************************************)
EXTENDS Integers, Sequences, FiniteSets, TLC

VARIABLES trk, clock, config, amt, gov, stk, subs, wal, sdk, mgr

vars == <<trk, clock, config, amt, gov, stk, subs, wal, sdk, mgr>>

(***************************************************************************)
(* Bounds of the model.                                                    *)
(***************************************************************************)
\* Status notifications delivered to one submission.
MaxNotifs == 3
\* Ticks of the clock that are observed while a submission is in flight.
MaxClock == 3

(***************************************************************************)
(* Operations and their messages.                                          *)
(***************************************************************************)
Ops == {"transfer", "bond", "bondExtra", "nominate", "unbond",
        "withdrawUnbonded", "vote", "submitTreasuryProposal"}

\* The initial value of errorMessage in each operation's status callback.
FailPrefix(op) ==
  CASE op = "transfer"               -> "Transaction failed"
    [] op = "bond"                   -> "Bonding failed"
    [] op = "bondExtra"              -> "Bond extra failed"
    [] op = "nominate"               -> "Nomination failed"
    [] op = "unbond"                 -> "Unbonding failed"
    [] op = "withdrawUnbonded"       -> "Withdraw unbonded failed"
    [] op = "vote"                   -> "Vote failed"
    [] op = "submitTreasuryProposal" -> "Treasury proposal failed"

\* tx.hash.toHex(): the hash of the extrinsic the operation built.
TxHash(op) == "0xtx-" \o op

(***************************************************************************)
(* Status notifications.                                                   *)
(***************************************************************************)
\* status.type: the node's extrinsic statuses, and the transport error the
\* callbacks test with status.isError.
TerminalTypes == {"Finalized", "Dropped", "Invalid", "Error", "Usurped",
                  "FinalityTimeout"}
StatusTypes == {"Future", "Ready", "Broadcast", "Retracted"} \cup {"InBlock"} \cup TerminalTypes

NoDispatchError == [kind |-> "none", index |-> 0, error |-> 0]
\* dispatchError: absent, a non-module error, or a module error (asModule).
DispatchErrors ==
  { NoDispatchError,
    [kind |-> "other", index |-> 0, error |-> 0],
    [kind |-> "module", index |-> 5, error |-> 2],
    [kind |-> "module", index |-> 9, error |-> 9] }

NoEvents == <<>>

\* events: the records the node reports with the block that includes the
\* extrinsic.
EventsOf(h) ==
  IF h = "0xb1"
    THEN << [phase |-> "ApplyExtrinsic", event |-> "balances.Transfer", topics |-> 0],
            [phase |-> "ApplyExtrinsic", event |-> "system.ExtrinsicSuccess", topics |-> 0] >>
    ELSE << [phase |-> "ApplyExtrinsic", event |-> "system.ExtrinsicFailed", topics |-> 1] >>

\* What the callback receives: { status, events, dispatchError }.
Notifs ==
  { [type |-> "InBlock", blockHash |-> h, events |-> EventsOf(h), dispatchError |-> de] :
      h \in {"0xb1", "0xb2"}, de \in DispatchErrors }
  \cup
  { [type |-> ty, blockHash |-> "", events |-> NoEvents, dispatchError |-> NoDispatchError] :
      ty \in StatusTypes \ {"InBlock"} }

(***************************************************************************)
(* The metadata registry.                                                  *)
(***************************************************************************)
\* The module errors the chain metadata knows.
RegistryResolves(de) == <<de.index, de.error>> \in {<<5, 2>>}

\* api.registry.findMetaError(dispatchError.asModule), where it resolves.
findMetaError(de) ==
  [section |-> "balances", name |-> "InsufficientBalance",
   docs |-> "Balance too low to send value"]

(***************************************************************************)
(* The promise an operation returns.                                       *)
(***************************************************************************)
NoValue == [hash |-> "", blockHash |-> "", success |-> FALSE,
            events |-> NoEvents, message |-> ""]

\* A holder that is not single-assignment: every call of resolve or reject
\* replaces the outcome.
SettleOverwriting(t, st, v) ==
  [t EXCEPT !.state = st, !.value = v, !.settles = @ + 1]

\* resolve(v) / reject(e) of the promise: the first call settles it.
Settle(t, st, v) ==
  IF t.state = "pending"
    THEN [t EXCEPT !.state = st, !.value = v, !.settles = @ + 1]
    ELSE [t EXCEPT !.ignored = @ + 1]

ErrorValue(msg) == [NoValue EXCEPT !.message = msg]

\* events.map(record => ({ phase, event })) of transfer.
MapEvents(events) ==
  [i \in 1..Len(events) |-> [phase |-> events[i].phase, event |-> events[i].event]]

\* What the operation resolves with: a TransferResult, or the hash alone.
SuccessValue(op, n) ==
  IF op = "transfer"
    THEN [hash |-> TxHash(op), blockHash |-> n.blockHash,
          success |-> (n.dispatchError.kind = "none"),
          events |-> MapEvents(n.events), message |-> ""]
    ELSE [NoValue EXCEPT !.hash = TxHash(op)]

(***************************************************************************)
(* The status callback given to signAndSend.                               *)
(***************************************************************************)
\* The message without the pallet.
DecodedMessageNoSection(decoded) == decoded.name \o ": " \o decoded.docs

\* `${decoded.section}.${decoded.name}: ${decoded.docs}`
DecodedMessage(decoded) ==
  decoded.section \o "." \o decoded.name \o ": " \o decoded.docs

\* The message without the status type.
StatusMessageNoType(op, type) == FailPrefix(op) \o " with status"

\* `<prefix> with status: ${status.type}`
StatusMessage(op, type) == FailPrefix(op) \o " with status: " \o type

\* Two defective callbacks: one that resolves at Finalized instead of
\* InBlock, one whose else branch rejects on every status but InBlock.
StatusCallbackAtFinalized(t, n) ==
  IF n.type = "Finalized"
    THEN Settle(t, "fulfilled", SuccessValue(t.op, n))
    ELSE IF n.type \in {"Error", "Dropped", "Invalid"}
      THEN Settle(t, "rejected", ErrorValue(StatusMessage(t.op, n.type)))
      ELSE t

StatusCallbackRejectingElse(t, n) ==
  IF n.type = "InBlock"
    THEN IF n.dispatchError.kind # "none"
      THEN Settle(t, "rejected", ErrorValue(FailPrefix(t.op)))
      ELSE Settle(t, "fulfilled", SuccessValue(t.op, n))
    ELSE Settle(t, "rejected", ErrorValue(StatusMessage(t.op, n.type)))

\* A callback that hands every dispatch error to the registry, module error
\* or not.
StatusCallbackDecodingAll(t, n) ==
  IF n.type = "InBlock"
    THEN IF n.dispatchError.kind # "none"
      THEN IF RegistryResolves(n.dispatchError)
        THEN Settle([t EXCEPT !.lookups = @ + 1], "rejected",
                    ErrorValue(DecodedMessage(findMetaError(n.dispatchError))))
        ELSE [t EXCEPT !.lookups = @ + 1, !.escaped = @ + 1]
      ELSE Settle(t, "fulfilled", SuccessValue(t.op, n))
    ELSE IF n.type \in {"Error", "Dropped", "Invalid"}
      THEN Settle(t, "rejected", ErrorValue(StatusMessage(t.op, n.type)))
      ELSE t

\* A callback that resolves at InBlock whatever the dispatch result and
\* leaves the verdict to the success field.
StatusCallbackReportingFailure(t, n) ==
  IF n.type = "InBlock"
    THEN Settle(t, "fulfilled", SuccessValue(t.op, n))
    ELSE IF n.type \in {"Error", "Dropped", "Invalid"}
      THEN Settle(t, "rejected", ErrorValue(StatusMessage(t.op, n.type)))
      ELSE t

\* ({ status, events, dispatchError }) => { ... }: the same in every
\* operation but for the messages and the value resolved with.
StatusCallback(t, n) ==
  IF n.type = "InBlock"
    THEN IF n.dispatchError.kind # "none"
      THEN IF n.dispatchError.kind = "module"
        THEN IF RegistryResolves(n.dispatchError)
          THEN Settle([t EXCEPT !.lookups = @ + 1], "rejected",
                      ErrorValue(DecodedMessage(findMetaError(n.dispatchError))))
          \* findMetaError throws: the exception leaves the callback, and
          \* neither resolve nor reject is called.
          ELSE [t EXCEPT !.lookups = @ + 1, !.escaped = @ + 1]
        ELSE Settle(t, "rejected", ErrorValue(FailPrefix(t.op)))
      ELSE Settle(t, "fulfilled", SuccessValue(t.op, n))
    ELSE IF n.type \in {"Error", "Dropped", "Invalid"}
      THEN Settle(t, "rejected", ErrorValue(StatusMessage(t.op, n.type)))
      ELSE t

(***************************************************************************)
(* One submission.                                                         *)
(***************************************************************************)
\* The errors signAndSend itself may fail with.
SubmitErrors == {"Cancelled", "1010: Invalid Transaction"}

IdleTracker ==
  [op |-> "", sub |-> "idle", unsub |-> "none",
   state |-> "pending", value |-> NoValue,
   settles |-> 0, ignored |-> 0, escaped |-> 0, lookups |-> 0,
   nDelivered |-> 0, lateCalls |-> 0, seenInBlock |-> FALSE,
   ended |-> FALSE]

\* config.timeout || 30000
DefaultTimeout == 30000

ConfigTimeout(timeout) == IF timeout = 0 THEN DefaultTimeout ELSE timeout

\* The timeouts a caller configures (0: none given).
\* The operation is called: it builds its call and hands the callback to
\* signAndSend inside the executor of the promise it returns.
Call(op) ==
  /\ trk.sub = "idle"
  /\ trk' = [trk EXCEPT !.op = op, !.sub = "starting"]
  /\ UNCHANGED <<clock, config, amt, gov, stk, subs, wal, sdk, mgr>>

\* signAndSend's promise resolves with the unsubscribe function, which
\* .catch(reject) passes on to a promise nothing holds.
SubmitOk ==
  /\ trk.sub = "starting"
  /\ trk' = [trk EXCEPT !.sub = "active", !.unsub = "discarded"]
  /\ UNCHANGED <<clock, config, amt, gov, stk, subs, wal, sdk, mgr>>

\* A submission without .catch(reject): the rejection of signAndSend's
\* promise reaches nobody.
SubmitFailUnhandled(err) ==
  /\ trk.sub = "starting"
  /\ trk' = [trk EXCEPT !.sub = "failed"]
  /\ UNCHANGED <<clock, config, amt, gov, stk, subs, wal, sdk, mgr>>

\* signAndSend's promise rejects: .catch(reject).
SubmitFail(err) ==
  /\ trk.sub = "starting"
  /\ trk' = Settle([trk EXCEPT !.sub = "failed"], "rejected", ErrorValue(err))
  /\ UNCHANGED <<clock, config, amt, gov, stk, subs, wal, sdk, mgr>>

\* The transport delivers the next status notification to the callback.
\* After a terminal status the node ends the stream.
Deliver(n) ==
  /\ trk.sub = "active"
  /\ ~trk.ended
  /\ trk.nDelivered < MaxNotifs
  /\ trk' = StatusCallback(
               [trk EXCEPT !.nDelivered = @ + 1,
                           !.lateCalls = IF trk.state # "pending" THEN @ + 1 ELSE @,
                           !.seenInBlock = @ \/ n.type = "InBlock",
                           !.ended = n.type \in TerminalTypes], n)
  /\ UNCHANGED <<clock, config, amt, gov, stk, subs, wal, sdk, mgr>>

\* Time passes. No operation arms a timer: config.timeout is stored by the
\* constructor and read nowhere.
Tick ==
  /\ clock < MaxClock
  /\ clock' = clock + 1
  /\ UNCHANGED <<trk, config, amt, gov, stk, subs, wal, sdk, mgr>>



(***************************************************************************)
(* Arbitrary-precision integers (BigInt): a magnitude is its sequence of   *)
(* limbs in base 2^LimbBits, least significant first, without leading zero *)
(* limbs; zero is <<>>.                                                    *)
(***************************************************************************)
LimbBits == 15

Base == 2 ^ LimbBits

LimbAt(a, i) == IF i >= 1 /\ i <= Len(a) THEN a[i] ELSE 0

\* Without its leading zero limbs.
Canonical(a) ==
  LET nz == {i \in 1..Len(a) : a[i] # 0}
  IN IF nz = {} THEN <<>>
     ELSE SubSeq(a, 1, CHOOSE i \in nz : \A j \in nz : j <= i)

RECURSIVE BAddFrom(_, _, _, _)
BAddFrom(a, b, i, c) ==
  IF i > Len(a) /\ i > Len(b)
    THEN IF c = 0 THEN <<>> ELSE <<c>>
    ELSE LET sum == LimbAt(a, i) + LimbAt(b, i) + c
         IN <<sum % Base>> \o BAddFrom(a, b, i + 1, sum \div Base)

BAdd(a, b) == BAddFrom(a, b, 1, 0)

\* a * m, for 0 <= m < Base
RECURSIVE BMulSmallFrom(_, _, _, _)
BMulSmallFrom(a, m, i, c) ==
  IF i > Len(a)
    THEN IF c = 0 THEN <<>> ELSE <<c>>
    ELSE LET prod == a[i] * m + c
         IN <<prod % Base>> \o BMulSmallFrom(a, m, i + 1, prod \div Base)

BMulSmall(a, m) == IF m = 0 THEN <<>> ELSE BMulSmallFrom(a, m, 1, 0)

\* a * Base^k
ShlLimbs(a, k) == IF a = <<>> THEN <<>> ELSE [i \in 1..k |-> 0] \o a

RECURSIVE BMulFrom(_, _, _)
BMulFrom(a, b, i) ==
  IF i > Len(b) THEN <<>>
  ELSE BAdd(ShlLimbs(BMulSmall(a, b[i]), i - 1), BMulFrom(a, b, i + 1))

BMul(a, b) == BMulFrom(a, b, 1)

\* The number of significant bits of a limb and of a magnitude.
LimbLen(x) == IF x = 0 THEN 0 ELSE CHOOSE n \in 1..LimbBits : 2 ^ (n - 1) <= x /\ x < 2 ^ n

BitLen(a) == IF a = <<>> THEN 0 ELSE (Len(a) - 1) * LimbBits + LimbLen(a[Len(a)])

\* Bit i of a magnitude, the least significant being bit 1.
BitAt(a, i) ==
  (LimbAt(a, ((i - 1) \div LimbBits) + 1) \div (2 ^ ((i - 1) % LimbBits))) % 2

\* a * 2^k
Shl(a, k) ==
  ShlLimbs(BMulSmall(a, 2 ^ (k % LimbBits)), k \div LimbBits)

\* floor(a / 2^k)
Shr(a, k) ==
  LET q == k \div LimbBits
      r == k % LimbBits
  IN IF q >= Len(a) THEN <<>>
     ELSE Canonical([i \in 1..(Len(a) - q) |->
                  (LimbAt(a, i + q) \div (2 ^ r))
                  + (LimbAt(a, i + q + 1) % (2 ^ r)) * (2 ^ (LimbBits - r))])

NatBits(n) == IF n = 0 THEN <<>> ELSE <<n>>

RECURSIVE Pow10(_)
Pow10(d) == IF d = 0 THEN <<1>> ELSE BMulSmall(Pow10(d - 1), 10)

BigZero == [neg |-> FALSE, mag |-> <<>>]

\* A BigInt: sign and magnitude (no negative zero).
BigInt(neg, mag) == [neg |-> neg /\ mag # <<>>, mag |-> mag]

\* BigInt * BigInt
\* floor(a / m) and a mod m, for 0 < m < Base: long division from the most
\* significant limb; <<quotient, remainder>>.
RECURSIVE BDivSmallFrom(_, _, _, _)
BDivSmallFrom(a, m, i, rem) ==
  IF i = 0 THEN <<<<>>, rem>>
  ELSE LET cur == rem * Base + a[i]
           rest == BDivSmallFrom(a, m, i - 1, cur % m)
       IN <<rest[1] \o <<cur \div m>>, rest[2]>>

BDivSmall(a, m) ==
  LET r == BDivSmallFrom(a, m, Len(a), 0)
  IN <<Canonical(r[1]), r[2]>>

DigitChar(d) ==
  CASE d = 0 -> "0" [] d = 1 -> "1" [] d = 2 -> "2" [] d = 3 -> "3"
    [] d = 4 -> "4" [] d = 5 -> "5" [] d = 6 -> "6" [] d = 7 -> "7"
    [] d = 8 -> "8" [] d = 9 -> "9"

RECURSIVE DecimalDigits(_)
DecimalDigits(a) ==
  IF a = <<>> THEN <<>>
  ELSE LET qr == BDivSmall(a, 10)
       IN DecimalDigits(qr[1]) \o <<DigitChar(qr[2])>>

\* toString() of an integer: its decimal digits, "0" for zero, a leading
\* minus sign for a negative one.
BigIntToString(x) ==
  IF x.mag = <<>> THEN <<"0">>
  ELSE (IF x.neg THEN <<"-">> ELSE <<>>) \o DecimalDigits(x.mag)

\* BigInt + BigInt, for operands that are not negative.
BigAdd(x, y) == BigInt(FALSE, BAdd(x.mag, y.mag))

(***************************************************************************)
(* BigInt(string): StringToBigInt.                                         *)
(***************************************************************************)
DigitValue(c) ==
  CASE c = "0" -> 0 [] c = "1" -> 1 [] c = "2" -> 2 [] c = "3" -> 3
    [] c = "4" -> 4 [] c = "5" -> 5 [] c = "6" -> 6 [] c = "7" -> 7
    [] c = "8" -> 8 [] c = "9" -> 9
    [] c \in {"a", "A"} -> 10 [] c \in {"b", "B"} -> 11
    [] c \in {"c", "C"} -> 12 [] c \in {"d", "D"} -> 13
    [] c \in {"e", "E"} -> 14 [] c \in {"f", "F"} -> 15
    [] OTHER -> 99

RECURSIVE Trim(_)
Trim(s) ==
  IF s = <<>> THEN s
  ELSE IF Head(s) = " " THEN Trim(Tail(s))
  ELSE IF s[Len(s)] = " " THEN Trim(SubSeq(s, 1, Len(s) - 1))
  ELSE s

IsDigits(s, radix) ==
  s # <<>> /\ \A i \in 1..Len(s) : DigitValue(s[i]) < radix

\* (The test on acc makes the accumulator a value before the next digit is
\* read, which keeps the evaluation shallow; it never holds.)
RECURSIVE ParseRadixFrom(_, _, _, _)
ParseRadixFrom(s, radix, i, acc) ==
  IF i > Len(s) \/ Len(acc) < 0 THEN acc
  ELSE ParseRadixFrom(s, radix, i + 1,
                      BAdd(BMulSmall(acc, radix), NatBits(DigitValue(s[i]))))

ParseRadix(s, radix) == ParseRadixFrom(s, radix, 1, <<>>)

SyntaxError == [ok |-> FALSE, error |-> "SyntaxError", value |-> BigZero]

Parsed(neg, mag) == [ok |-> TRUE, error |-> "", value |-> BigInt(neg, mag)]

PrefixRadix(s) ==
  IF Len(s) >= 2 /\ s[1] = "0"
    THEN CASE s[2] \in {"x", "X"} -> 16
           [] s[2] \in {"o", "O"} -> 8
           [] s[2] \in {"b", "B"} -> 2
           [] OTHER -> 0
    ELSE 0

\* BigInt(amount) for a string: white space is trimmed, the empty string is
\* 0n, a decimal literal may carry a sign, a 0x/0o/0b literal may not, and
\* anything else (a fraction, an exponent, a unit) is a SyntaxError.
StringToBigInt(chars) ==
  LET s == Trim(chars)
      body == IF s # <<>> /\ Head(s) \in {"-", "+"} THEN Tail(s) ELSE s
  IN IF s = <<>> THEN Parsed(FALSE, <<>>)
     ELSE IF PrefixRadix(s) # 0
       THEN IF IsDigits(SubSeq(s, 3, Len(s)), PrefixRadix(s))
              THEN Parsed(FALSE, ParseRadix(SubSeq(s, 3, Len(s)), PrefixRadix(s)))
              ELSE SyntaxError
     ELSE IF IsDigits(body, 10)
       THEN Parsed(Head(s) = "-", ParseRadix(body, 10))
       ELSE SyntaxError

(***************************************************************************)
(* Numbers: IEEE 754 doubles, value = (-1)^neg * man * 2^exp with man a    *)
(* magnitude of at most MantissaBits bits.                                 *)
(***************************************************************************)
MantissaBits == 53

\* Round a magnitude to MantissaBits significant bits, to nearest, ties to
\* even: <<rounded magnitude, bits dropped>>.
RoundToMantissa(m) ==
  IF BitLen(m) <= MantissaBits THEN <<m, 0>>
  ELSE LET k == BitLen(m) - MantissaBits
           q == Shr(m, k)
           half == BitAt(m, k) = 1
           sticky == \E i \in 1..(k - 1) : BitAt(m, i) = 1
           up == half /\ (sticky \/ BitAt(q, 1) = 1)
       IN <<IF up THEN BAdd(q, <<1>>) ELSE q, k>>

\* amount * (10 ** decimals): the exact product rounded to a double
\* (10 ** decimals is exact for decimals <= 22).
NumberTimesPow10(x, decimals) ==
  LET r == RoundToMantissa(BMul(x.man, Pow10(decimals)))
  IN [neg |-> x.neg, man |-> r[1], exp |-> x.exp + r[2]]

\* Math.floor, then BigInt(): the integer is exact.
BigIntOfFloor(y) ==
  IF y.exp >= 0 THEN BigInt(y.neg, Shl(y.man, y.exp))
  ELSE LET k == -y.exp
           int == Shr(y.man, k)
           frac == \E i \in 1..k : BitAt(y.man, i) = 1
       IN BigInt(y.neg, IF y.neg /\ frac THEN BAdd(int, <<1>>) ELSE int)

RECURSIVE HexBits(_, _, _)
HexBits(h, i, acc) ==
  IF i > Len(h) THEN acc
  ELSE HexBits(h, i + 1, BAdd(BMulSmall(acc, 16), NatBits(h[i])))

(***************************************************************************)
(* Amount inputs (string | number).                                        *)
(***************************************************************************)
Str(chars) ==
  [kind |-> "string", chars |-> chars, lit |-> "", neg |-> FALSE, man |-> <<>>, exp |-> 0]

\* The double nearest to the literal, its mantissa in hexadecimal digits.
Num(lit, neg, hex, exp) ==
  [kind |-> "number", chars |-> <<>>, lit |-> lit, neg |-> neg,
   man |-> HexBits(hex, 1, <<>>), exp |-> exp]

Amounts ==
  { Str(<<"0">>), Str(<<"5">>), Str(<<"4", "2">>), Str(<<"0", "0", "7">>),
    Str(<<"1", "2", "3", "4", "5", "6", "7", "8", "9", "0", "1", "2">>),
    Str(<<"-", "5">>), Str(<<"1", ".", "5">>), Str(<<>>), Str(<<" ", "1", "2">>),
    Str(<<"0", "x", "1", "0">>), Str(<<"1", "2", " ", "D", "O", "T">>) }
  \cup
  { Num("0", FALSE, <<>>, 0),
    Num("1", FALSE, <<1>>, 0),
    Num("1.5", FALSE, <<3>>, -1),
    Num("2.5", FALSE, <<5>>, -1),
    Num("0.1", FALSE, <<12, 12, 12, 12, 12, 12, 12, 12, 12, 12, 12, 12, 13>>, -55),
    Num("0.29", FALSE, <<1, 2, 8, 15, 5, 12, 2, 8, 15, 5, 12, 2, 8, 15>>, -54),
    Num("1.1", FALSE, <<8, 12, 12, 12, 12, 12, 12, 12, 12, 12, 12, 12, 13>>, -51),
    Num("19.99", FALSE, <<1, 3, 15, 13, 7, 0, 10, 3, 13, 7, 0, 10, 3, 13>>, -48),
    Num("-1", TRUE, <<1>>, 0),
    Num("-1.5", TRUE, <<3>>, -1) }

(***************************************************************************)
(* The chain an SDK instance talks to.                                     *)
(***************************************************************************)
\* DECIMALS of utils/constants.
DECIMALS(network) == IF network = "polkadot" THEN 10 ELSE 12

\* network: the configured network name; chainDecimals: what
\* api.registry.chainDecimals[0] holds (0: nothing, or zero);
\* convictionVoting: whether api.tx.convictionVoting exists.
Chains ==
  { [network |-> "polkadot", chainDecimals |-> 10, convictionVoting |-> TRUE],
    [network |-> "kusama",   chainDecimals |-> 12, convictionVoting |-> TRUE],
    [network |-> "westend",  chainDecimals |-> 12, convictionVoting |-> FALSE],
    [network |-> "polkadot", chainDecimals |-> 18, convictionVoting |-> TRUE],
    [network |-> "rococo",   chainDecimals |-> 0,  convictionVoting |-> FALSE] }

\* this.api.registry.chainDecimals[0] || 10
ChainDecimals(chain) == IF chain.chainDecimals = 0 THEN 10 ELSE chain.chainDecimals

(***************************************************************************)
(* The conversion of each operation.                                       *)
(***************************************************************************)
Converted(v) == [ok |-> TRUE, error |-> "", value |-> v]

\* typeof amount === 'string' ? BigInt(amount)
\*                            : BigInt(Math.floor(amount * (10 ** decimals)))
\* (bond, bondExtra, unbond, voteOnReferendum, submitTreasuryProposal)
ScaledAmount(amount, decimals) ==
  IF amount.kind = "string"
    THEN StringToBigInt(amount.chars)
    ELSE Converted(BigIntOfFloor(NumberTimesPow10(amount, decimals)))

\* typeof amount === 'string' ? BigInt(amount) * BigInt(10 ** decimals)
\*                            : BigInt(Math.floor(amount * (10 ** decimals)))
transferAmount(amount, decimals) ==
  IF amount.kind = "string"
    THEN LET p == StringToBigInt(amount.chars)
         IN IF p.ok THEN Converted(BigInt(p.value.neg, BMul(p.value.mag, Pow10(decimals)))) ELSE p
    ELSE Converted(BigIntOfFloor(NumberTimesPow10(amount, decimals)))

AmountOps == {"transfer", "bond", "bondExtra", "unbond", "vote",
              "submitTreasuryProposal"}

\* The decimals an operation converts with.
DecimalsOf(op, chain) ==
  IF op = "transfer" THEN DECIMALS(chain.network) ELSE ChainDecimals(chain)

ConvertAmount(op, amount, chain) ==
  IF op = "transfer"
    THEN transferAmount(amount, DecimalsOf(op, chain))
    ELSE ScaledAmount(amount, DecimalsOf(op, chain))

\* The call an operation builds: api.tx.<pallet>.<method>(..., amount ...).
\* voteOnReferendum on a chain without convictionVoting builds
\* democracy.vote(index, { [vote]: true, conviction }), which holds no amount.
BuiltCall(op, chain, v) ==
  CASE op = "transfer" ->
         [pallet |-> "balances", method |-> "transferKeepAlive", hasAmount |-> TRUE, amount |-> v]
    [] op = "bond" ->
         [pallet |-> "staking", method |-> "bond", hasAmount |-> TRUE, amount |-> v]
    [] op = "bondExtra" ->
         [pallet |-> "staking", method |-> "bondExtra", hasAmount |-> TRUE, amount |-> v]
    [] op = "unbond" ->
         [pallet |-> "staking", method |-> "unbond", hasAmount |-> TRUE, amount |-> v]
    [] op = "vote" ->
         IF chain.convictionVoting
           THEN [pallet |-> "convictionVoting", method |-> "vote", hasAmount |-> TRUE, amount |-> v]
           ELSE [pallet |-> "democracy", method |-> "vote", hasAmount |-> FALSE, amount |-> BigZero]
    [] op = "submitTreasuryProposal" ->
         [pallet |-> "treasury", method |-> "proposeSpend", hasAmount |-> TRUE, amount |-> v]

NoCall == [pallet |-> "", method |-> "", hasAmount |-> FALSE, amount |-> BigZero]

\* The vote argument voteOnReferendum hands to the call it builds:
\* { Standard: { vote: { aye: true } | { nay: true }, balance } } for
\* convictionVoting.vote, { [vote]: true, conviction } for democracy.vote.
\* The other operations build none.
VoteArgument(op, chain, vote, conviction) ==
  IF op # "vote"
    THEN [shape |-> "", direction |-> "", hasConviction |-> FALSE, conviction |-> 0,
          hasBalance |-> FALSE]
    ELSE IF chain.convictionVoting
      THEN [shape |-> "Standard", direction |-> IF vote = "aye" THEN "aye" ELSE "nay",
            hasConviction |-> FALSE, conviction |-> 0, hasBalance |-> TRUE]
      ELSE [shape |-> "Vote", direction |-> vote,
            hasConviction |-> TRUE, conviction |-> conviction, hasBalance |-> FALSE]

IdleAmtOn(chain) ==
  [pc |-> "idle", chain |-> chain, op |-> "", amount |-> Str(<<>>),
   vote |-> "", conviction |-> 0,
   decimals |-> 0, call |-> NoCall, voteArg |-> VoteArgument("", chain, "", 0),
   error |-> ""]

\* An amount-taking operation from its call to signAndSend: the amount is
\* converted and the call built with it. An exception of the conversion
\* rejects the promise of the async operation: nothing is built or sent.
\* What api.tx does with a negative magnitude is the chain library's
\* business: it may encode the call or refuse it.
CallOperation(op, amount) ==
  /\ amt.pc = "idle"
  /\ \E vote \in IF op = "vote" THEN {"aye", "nay"} ELSE {""},
        conviction \in IF op = "vote" THEN {0, 1, 6} ELSE {0} :
       LET c == ConvertAmount(op, amount, amt.chain)
           started == [amt EXCEPT !.op = op, !.amount = amount,
                                  !.vote = vote, !.conviction = conviction,
                                  !.decimals = DecimalsOf(op, amt.chain)]
       IN \/ /\ ~c.ok
             /\ amt' = [started EXCEPT !.pc = "rejected", !.error = c.error]
          \/ /\ c.ok
             /\ amt' = [started EXCEPT
                          !.pc = "submitted",
                          !.call = BuiltCall(op, amt.chain, c.value),
                          !.voteArg = VoteArgument(op, amt.chain, vote, conviction)]
          \/ /\ c.ok
             /\ c.value.neg
             /\ amt' = [started EXCEPT !.pc = "rejected", !.error = "Error"]
  /\ UNCHANGED <<trk, clock, config, gov, stk, subs, wal, sdk, mgr>>

\* The caller moves on to its next operation.
Return ==
  /\ amt.pc \in {"submitted", "rejected"}
  /\ amt' = IdleAmtOn(amt.chain)
  /\ UNCHANGED <<trk, clock, config, gov, stk, subs, wal, sdk, mgr>>

(***************************************************************************)
(* Governance storage: api.query.referenda.referendumInfoFor (current) and *)
(* api.query.democracy.referendumInfoOf (legacy).                          *)
(***************************************************************************)
\* One [key, value] pair of a storage map. decodes: whether reading the
\* pair (key.args[0].toNumber(), value.unwrap(), ...) goes through without
\* an exception. depositField: the name under which the ongoing status
\* exposes its submission deposit {who, amount} ("" : under none).
\* since: deciding.since of the current schema, end of the legacy one
\* (0: not there).
Entry(index, decodes, state, track, depositField, who, amount, since) ==
  [index |-> index, decodes |-> decodes, state |-> state, track |-> track,
   depositField |-> depositField, who |-> who, amount |-> amount,
   since |-> since,
   keyHex |-> "0xkey" \o ToString(index),
   valueHex |-> "0xval" \o ToString(index)]

\* Contents of referendumInfoFor, in the order entries() returns them.
CurrentMaps ==
  { <<>>,
    << Entry(1, TRUE,  "Ongoing",  0, "submission",        "5Alice", "100", 40),
       Entry(2, FALSE, "Ongoing",  1, "submission",        "5Carol", "300", 0),
       Entry(3, TRUE,  "Approved", 0, "",                  "",       "",    0),
       Entry(4, TRUE,  "Ongoing",  2, "submissionDeposit", "5Bob",   "250", 0) >>,
    << Entry(3, TRUE,  "Ongoing",  5, "submission",        "5Dave",  "0",   7),
       Entry(1, TRUE,  "Rejected", 0, "",                  "",       "",    0) >>,
    << Entry(2, FALSE, "Ongoing",  0, "submission",        "5Erin",  "10",  0) >> }

\* Contents of referendumInfoOf.
LegacyMaps ==
  { <<>>,
    << Entry(1, TRUE,  "Ongoing",  0, "", "", "", 500),
       Entry(2, FALSE, "Ongoing",  0, "", "", "", 600),
       Entry(3, TRUE,  "Finished", 0, "", "", "", 0),
       Entry(4, TRUE,  "Ongoing",  0, "", "", "", 700) >>,
    << Entry(2, TRUE,  "Ongoing",  0, "", "", "", 900) >> }

\* A chain: which of the two storage maps api.query exposes, and what they
\* hold.
GovChains ==
  { [hasReferenda |-> TRUE, referenda |-> c, hasDemocracy |-> TRUE, democracy |-> l] :
      c \in CurrentMaps, l \in LegacyMaps }
  \cup
  { [hasReferenda |-> TRUE, referenda |-> c, hasDemocracy |-> FALSE, democracy |-> <<>>] :
      c \in CurrentMaps }
  \cup
  { [hasReferenda |-> FALSE, referenda |-> <<>>, hasDemocracy |-> TRUE, democracy |-> l] :
      l \in LegacyMaps }
  \cup
  { [hasReferenda |-> FALSE, referenda |-> <<>>, hasDemocracy |-> FALSE, democracy |-> <<>>] }

\* The referendum indices a caller asks for.
\* The query that fails (the node is unreachable, the call throws).
QueryFailures == {"none", "referenda", "democracy"}

(***************************************************************************)
(* GovernanceManager: normalisation into GovernanceProposal.               *)
(***************************************************************************)
\* null
NoProposal ==
  [index |-> 0, hash |-> "", author |-> "", deposit |-> "", status |-> "",
   title |-> "", description |-> "", votingEnd |-> 0]

\* The object literal of parseOpenGovProposals / getReferendumDetails:
\*   submission = ongoing.submission
\*   author: submission?.who?.toString() || 'Unknown'
\*   deposit: submission?.amount?.toString() || '0'
OpenGovProposal(e, index, hash) ==
  LET submission == e.depositField = "submission"
  IN [index |-> index,
      hash |-> hash,
      author |-> IF submission /\ e.who # "" THEN e.who ELSE "Unknown",
      deposit |-> IF submission /\ e.amount # "" THEN e.amount ELSE "0",
      status |-> "Active",
      title |-> "Track " \o ToString(e.track) \o " - Referendum " \o ToString(index),
      description |-> "OpenGov Referendum",
      votingEnd |-> e.since]

\* The object literal of parseLegacyProposals / getReferendumDetails.
LegacyProposal(e, index, hash) ==
  [index |-> index,
   hash |-> hash,
   author |-> "Democracy",
   deposit |-> "0",
   status |-> "Active",
   title |-> "Democracy Referendum " \o ToString(index),
   description |-> "Legacy Democracy Referendum",
   votingEnd |-> e.since]

\* A map callback that returns every decodable entry, ongoing or not.
OpenGovEntryAnyState(e) ==
  IF ~e.decodes THEN NoProposal
  ELSE OpenGovProposal(e, e.index, e.keyHex)

\* ([key, value]) => { try { ... if (info.isOngoing) return {...};
\*                           return null } catch { return null } }
OpenGovEntry(e) ==
  IF ~e.decodes THEN NoProposal
  ELSE IF e.state = "Ongoing" THEN OpenGovProposal(e, e.index, e.keyHex)
  ELSE NoProposal

LegacyEntry(e) ==
  IF ~e.decodes THEN NoProposal
  ELSE IF e.state = "Ongoing" THEN LegacyProposal(e, e.index, e.keyHex)
  ELSE NoProposal

\* .filter(proposal => proposal !== null)
NotNull(p) == p # NoProposal

\* A parse with one try around the whole map: a bad entry empties the
\* listing.
parseOpenGovProposalsAborting(entries) ==
  IF \E i \in 1..Len(entries) : ~entries[i].decodes THEN <<>>
  ELSE SelectSeq([i \in 1..Len(entries) |-> OpenGovEntry(entries[i])], NotNull)

\* entries.map(...).filter(...)
parseOpenGovProposals(entries) ==
  SelectSeq([i \in 1..Len(entries) |-> OpenGovEntry(entries[i])], NotNull)

parseLegacyProposals(entries) ==
  SelectSeq([i \in 1..Len(entries) |-> LegacyEntry(entries[i])], NotNull)

\* What a call of a read operation did: the storage it queried, in order,
\* what it returned, whether it caught (and logged) an exception, and
\* whether an exception left it (the whole body of both operations is inside
\* try/catch, so none does).
Answer(queried, result, warned) ==
  [queried |-> queried, result |-> result, warned |-> warned, threw |-> FALSE]

\* A listing that also falls back when the current map is empty.
ActiveProposalsFallbackOnEmpty(chain, fail) ==
  IF chain.hasReferenda /\ chain.referenda # <<>>
    THEN Answer(<<"referenda">>, parseOpenGovProposals(chain.referenda), FALSE)
    ELSE Answer(<<"referenda", "democracy">>, parseLegacyProposals(chain.democracy), FALSE)

\* getActiveProposals: an array, even an empty one, is truthy.
ActiveProposals(chain, fail) ==
  IF chain.hasReferenda
    THEN IF fail = "referenda"
      THEN Answer(<<"referenda">>, <<>>, TRUE)
      ELSE Answer(<<"referenda">>, parseOpenGovProposals(chain.referenda), FALSE)
    ELSE IF chain.hasDemocracy
      THEN IF fail = "democracy"
        THEN Answer(<<"democracy">>, <<>>, TRUE)
        ELSE Answer(<<"democracy">>, parseLegacyProposals(chain.democracy), FALSE)
      ELSE Answer(<<>>, parseLegacyProposals(<<>>), FALSE)

\* api.query.<pallet>.<map>(index): the entry with that key (isSome), if any.
Lookup(entries, index) ==
  SelectSeq(entries, LAMBDA e : e.index = index)

\* A lookup with one try/catch per schema: a failure of the current-schema
\* query is logged and the legacy schema is asked next.
ReferendumDetailsCatchPerSchema(chain, index, fail) ==
  LET cur == Lookup(chain.referenda, index)
      leg == Lookup(chain.democracy, index)
      viaCurrent == IF chain.hasReferenda THEN <<"referenda">> ELSE <<>>
      curFails == chain.hasReferenda /\ (fail = "referenda" \/ (cur # <<>> /\ ~cur[1].decodes))
      legacy ==
        IF ~chain.hasDemocracy THEN Answer(viaCurrent, <<>>, curFails)
        ELSE IF fail = "democracy" \/ (leg # <<>> /\ ~leg[1].decodes)
          THEN Answer(viaCurrent \o <<"democracy">>, <<>>, TRUE)
        ELSE IF leg # <<>> /\ leg[1].state = "Ongoing"
          THEN Answer(viaCurrent \o <<"democracy">>,
                      <<LegacyProposal(leg[1], index, leg[1].valueHex)>>, curFails)
        ELSE Answer(viaCurrent \o <<"democracy">>, <<>>, curFails)
  IN IF ~chain.hasReferenda \/ curFails THEN legacy
     ELSE IF cur # <<>> /\ cur[1].state = "Ongoing"
       THEN Answer(<<"referenda">>,
                   <<OpenGovProposal(cur[1], index, cur[1].valueHex)>>, FALSE)
     ELSE legacy

\* getReferendumDetails: the current schema is asked first; whenever it does
\* not return, the legacy schema is asked next.
ReferendumDetails(chain, index, fail) ==
  LET cur == Lookup(chain.referenda, index)
      leg == Lookup(chain.democracy, index)
      viaCurrent == IF chain.hasReferenda THEN <<"referenda">> ELSE <<>>
      legacy ==
        IF ~chain.hasDemocracy THEN Answer(viaCurrent, <<>>, FALSE)
        ELSE IF fail = "democracy" \/ (leg # <<>> /\ ~leg[1].decodes)
          THEN Answer(viaCurrent \o <<"democracy">>, <<>>, TRUE)
        ELSE IF leg # <<>> /\ leg[1].state = "Ongoing"
          THEN Answer(viaCurrent \o <<"democracy">>,
                      <<LegacyProposal(leg[1], index, leg[1].valueHex)>>, FALSE)
        ELSE Answer(viaCurrent \o <<"democracy">>, <<>>, FALSE)
  IN IF ~chain.hasReferenda THEN legacy
     ELSE IF fail = "referenda" \/ (cur # <<>> /\ ~cur[1].decodes)
       THEN Answer(<<"referenda">>, <<>>, TRUE)
     ELSE IF cur # <<>> /\ cur[1].state = "Ongoing"
       THEN Answer(<<"referenda">>,
                   <<OpenGovProposal(cur[1], index, cur[1].valueHex)>>, FALSE)
     ELSE legacy

IdleGovOn(chain) ==
  [pc |-> "idle", chain |-> chain, op |-> "", index |-> 0,
   fail |-> "none", queried |-> <<>>, result |-> <<>>, warned |-> FALSE,
   threw |-> FALSE]

GetActiveProposals(fail) ==
  /\ gov.pc = "idle"
  /\ LET a == ActiveProposals(gov.chain, fail)
     IN gov' = [gov EXCEPT !.pc = "done", !.op = "getActiveProposals",
                           !.fail = fail,
                           !.queried = a.queried, !.result = a.result,
                           !.warned = a.warned, !.threw = a.threw]
  /\ UNCHANGED <<trk, clock, config, amt, stk, subs, wal, sdk, mgr>>

GetReferendumDetails(index, fail) ==
  /\ gov.pc = "idle"
  /\ LET a == ReferendumDetails(gov.chain, index, fail)
     IN gov' = [gov EXCEPT !.pc = "done", !.op = "getReferendumDetails",
                           !.index = index, !.fail = fail,
                           !.queried = a.queried, !.result = a.result,
                           !.warned = a.warned, !.threw = a.threw]
  /\ UNCHANGED <<trk, clock, config, amt, stk, subs, wal, sdk, mgr>>

\* The caller takes the answer.
GovReturn ==
  /\ gov.pc = "done"
  /\ gov' = IdleGovOn(gov.chain)
  /\ UNCHANGED <<trk, clock, config, amt, stk, subs, wal, sdk, mgr>>

(***************************************************************************)
(* Staking storage: staking.ledger, staking.nominators, staking.currentEra *)
(***************************************************************************)
\* An on-chain balance (u128), written by its decimal digits.
Balance(digits) == BigInt(FALSE, ParseRadix(digits, 10))

Chunk(digits, era) == [value |-> Balance(digits), era |-> era]

NoLedger == [isSome |-> FALSE, active |-> BigZero, unlocking |-> <<>>]

Ledger(active, unlocking) ==
  [isSome |-> TRUE, active |-> Balance(active), unlocking |-> unlocking]

\* What staking.ledger(address) holds.
Ledgers ==
  { NoLedger,
    Ledger(<<"0">>, <<>>),
    Ledger(<<"1", "0", "0", "0">>, << Chunk(<<"1", "0", "0">>, 5), Chunk(<<"5", "0">>, 10) >>),
    Ledger(<<"7">>, << Chunk(<<"5", "0">>, 10), Chunk(<<"1", "0", "0">>, 5),
                       Chunk(<<"5", "0">>, 10) >>),
    \* 2^53 + 1 twice: a sum a double cannot hold.
    Ledger(<<"2", "5">>,
           << Chunk(<<"9", "0", "0", "7", "1", "9", "9", "2", "5", "4", "7", "4", "0", "9", "9", "3">>, 3),
              Chunk(<<"9", "0", "0", "7", "1", "9", "9", "2", "5", "4", "7", "4", "0", "9", "9", "3">>, 8),
              Chunk(<<"0">>, 9) >>) }

NoNominations == [isSome |-> FALSE, targets |-> <<>>]

\* What staking.nominators(address) holds.
Nominators ==
  { NoNominations,
    [isSome |-> TRUE, targets |-> <<"5Val1", "5Val2">>],
    [isSome |-> TRUE, targets |-> <<"5Val3">>] }

\* The last era the model lets the chain reach.
MaxEra == 11

(***************************************************************************)
(* StakingManager.getStakingInfo                                           *)
(***************************************************************************)
\* The unlocking chunks in reverse order.
UnbondingReversed(ledger) ==
  [i \in 1..Len(ledger.unlocking) |->
     [value |-> BigIntToString(ledger.unlocking[Len(ledger.unlocking) + 1 - i].value),
      era |-> ledger.unlocking[Len(ledger.unlocking) + 1 - i].era]]

\* ledger.unlocking.map(chunk => ({ value: chunk.value.toString(),
\*                                  era: chunk.era.toNumber() }))
Unbonding(ledger) ==
  [i \in 1..Len(ledger.unlocking) |->
     [value |-> BigIntToString(ledger.unlocking[i].value),
      era |-> ledger.unlocking[i].era]]

\* .reduce((total, chunk) => (BigInt(total) + BigInt(chunk.value)).toString(), '0')
RECURSIVE SumValues(_, _, _)
SumValues(chunks, i, total) ==
  IF i > Len(chunks) THEN total
  ELSE SumValues(chunks, i + 1,
                 BigIntToString(BigAdd(StringToBigInt(total).value,
                                       StringToBigInt(chunks[i].value).value)))

\* A sum over the chunks of eras strictly before the current one.
RedeemableStrictlyPast(unbonding, currentEraNumber) ==
  SumValues(SelectSeq(unbonding, LAMBDA chunk : chunk.era < currentEraNumber),
            1, <<"0">>)

\* unbonding.filter(chunk => chunk.era <= currentEraNumber).reduce(...)
Redeemable(unbonding, currentEraNumber) ==
  SumValues(SelectSeq(unbonding, LAMBDA chunk : chunk.era <= currentEraNumber),
            1, <<"0">>)

NoStakingInfo ==
  [bonded |-> <<>>, unbonding |-> <<>>, redeemable |-> <<>>,
   hasNominations |-> FALSE, nominations |-> <<>>]

\* getStakingInfo(address) on the storage as it is at the call. The current
\* era is read only when there is a ledger (staking.currentEra() is set on
\* every chain that has one).
StakingInfo(ledger, nominations, currentEraNumber) ==
  [bonded |-> IF ledger.isSome THEN BigIntToString(ledger.active) ELSE <<"0">>,
   unbonding |-> IF ledger.isSome THEN Unbonding(ledger) ELSE <<>>,
   redeemable |-> IF ledger.isSome
                    THEN Redeemable(Unbonding(ledger), currentEraNumber)
                    ELSE <<"0">>,
   hasNominations |-> nominations.isSome,
   nominations |-> IF nominations.isSome THEN nominations.targets ELSE <<>>]

IdleStk ==
  [pc |-> "idle", ledger |-> NoLedger, nominations |-> NoNominations,
   era |-> 0, result |-> NoStakingInfo, last |-> <<>>]

GetStakingInfo ==
  /\ stk.pc = "idle"
  /\ stk' = [stk EXCEPT !.pc = "done",
                        !.result = StakingInfo(stk.ledger, stk.nominations, stk.era)]
  /\ UNCHANGED <<trk, clock, config, amt, gov, subs, wal, sdk, mgr>>

\* The caller takes the view; nothing of it is kept by the manager (last
\* is what the caller remembers of the redeemable amount it was given).
StakingReturn ==
  /\ stk.pc = "done"
  /\ stk' = [stk EXCEPT !.pc = "idle", !.result = NoStakingInfo,
                        !.last = stk.result.redeemable]
  /\ UNCHANGED <<trk, clock, config, amt, gov, subs, wal, sdk, mgr>>

\* The chain moves to its next era.
NextEra ==
  /\ stk.pc = "idle"
  /\ stk.era < MaxEra
  /\ stk' = [stk EXCEPT !.era = @ + 1]
  /\ UNCHANGED <<trk, clock, config, amt, gov, subs, wal, sdk, mgr>>

\* The account bonds, unbonds, withdraws or nominates: its storage changes.
StorageChanges(ledger, nominations) ==
  /\ stk.pc = "idle"
  /\ <<ledger, nominations>> # <<stk.ledger, stk.nominations>>
  /\ stk' = [stk EXCEPT !.ledger = ledger, !.nominations = nominations]
  /\ UNCHANGED <<trk, clock, config, amt, gov, subs, wal, sdk, mgr>>

(***************************************************************************)
(* Several submissions in flight at once.                                  *)
(***************************************************************************)
SubIds == {1, 2}

\* The operation behind each submission.
OpOf(i) == IF i = 1 THEN "transfer" ELSE "bond"

\* The notifications the node sends to the submissions in flight.
ConcNotifs ==
  { n \in Notifs :
      \/ n.type \in {"Ready", "Dropped", "Finalized"}
      \/ /\ n.type = "InBlock"
         /\ \/ n.blockHash = "0xb1" /\ n.dispatchError.kind = "none"
            \/ n.blockHash = "0xb2" /\ n.dispatchError = [kind |-> "module", index |-> 5, error |-> 2] }

\* Notifications delivered to one submission.
MaxStream == 2

\* One resolve/reject pair kept for all submissions: the first one's.
ResolverShared(i) == 1

\* The promise the callback of submission i settles: resolve and reject are
\* the parameters of the executor of the promise created by that call.
ResolverOf(i) == i

StreamEnded(s) == s.stream # <<>> /\ s.stream[Len(s.stream)].type \in TerminalTypes

\* Operation OpOf(i) is called and its signAndSend subscribes.
ConcStart(i) ==
  /\ subs[i].t.sub = "idle"
  /\ subs' = [subs EXCEPT ![i].t = [@ EXCEPT !.op = OpOf(i), !.sub = "active",
                                             !.unsub = "discarded"]]
  /\ UNCHANGED <<trk, clock, config, amt, gov, stk, wal, sdk, mgr>>

\* The node delivers a notification to the callback of submission i.
ConcDeliver(i, n) ==
  /\ subs[i].t.sub = "active"
  /\ ~StreamEnded(subs[i])
  /\ Len(subs[i].stream) < MaxStream
  /\ LET j == ResolverOf(i)
         streamed == [subs EXCEPT ![i].stream = Append(@, n)]
     IN subs' = [streamed EXCEPT ![j].t = StatusCallback([@ EXCEPT !.op = OpOf(i)], n)]
  /\ UNCHANGED <<trk, clock, config, amt, gov, stk, wal, sdk, mgr>>

(***************************************************************************)
(* formatBalance of @polkadot/util, as getBalance calls it:                *)
(* formatBalance(free, { decimals, withSi: true, withUnit: symbol }).      *)
(***************************************************************************)
\* The SI prefixes, from yocto to yotta (the micro sign is written u).
SI ==
  << [power |-> -24, value |-> "y"], [power |-> -21, value |-> "z"],
     [power |-> -18, value |-> "a"], [power |-> -15, value |-> "f"],
     [power |-> -12, value |-> "p"], [power |-> -9,  value |-> "n"],
     [power |-> -6,  value |-> "u"], [power |-> -3,  value |-> "m"],
     [power |-> 0,   value |-> "-"], [power |-> 3,   value |-> "k"],
     [power |-> 6,   value |-> "M"], [power |-> 9,   value |-> "G"],
     [power |-> 12,  value |-> "T"], [power |-> 15,  value |-> "P"],
     [power |-> 18,  value |-> "E"], [power |-> 21,  value |-> "Z"],
     [power |-> 24,  value |-> "Y"] >>

\* The index of the unit without prefix, counted from 0.
SI_MID == 8

\* calcSi(text, decimals): SI[siDefIndex] || SI[siDefIndex < 0 ? 0 : last],
\* siDefIndex = (SI_MID - 1) + Math.ceil((text.length - decimals) / 3)
calcSi(text, decimals) ==
  LET siDefIndex == (SI_MID - 1) - ((decimals - Len(text)) \div 3)
  IN IF siDefIndex < 0 THEN SI[1]
     ELSE IF siDefIndex >= Len(SI) THEN SI[Len(SI)]
     ELSE SI[siDefIndex + 1]

Zeros(n) == [i \in 1..n |-> "0"]

\* text.padStart(n, '0') and text.padEnd(n, '0')
PadStart(text, n) == IF Len(text) >= n THEN text ELSE Zeros(n - Len(text)) \o text

PadEnd(text, n) == IF Len(text) >= n THEN text ELSE text \o Zeros(n - Len(text))

\* formatDecimal(value, ','): the digits in groups of three.
RECURSIVE formatDecimal(_)
formatDecimal(value) ==
  IF Len(value) <= 3 THEN value
  ELSE formatDecimal(SubSeq(value, 1, Len(value) - 3)) \o <<",">>
       \o SubSeq(value, Len(value) - 2, Len(value))

\* formatBalance for the digits of a magnitude that is not negative.
formatBalance(text, decimals, unit) ==
  IF text = <<"0">> THEN <<"0">>
  ELSE LET si == calcSi(text, decimals)
           mid == Len(text) - (decimals + si.power)
           pre == IF mid <= 0 THEN <<"0">>
                  ELSE SubSeq(text, 1, IF mid < Len(text) THEN mid ELSE Len(text))
           padded == PadStart(text, IF mid < 0 THEN decimals ELSE 1)
           from == SubSeq(padded, (IF mid < 0 THEN 0 ELSE mid) + 1, Len(padded))
           post == SubSeq(PadEnd(from, 4), 1, 4)
           units == IF si.value = "-" THEN <<" ">> \o unit
                    ELSE <<" ", si.value>> \o unit
       IN formatDecimal(pre) \o <<".">> \o post \o units

(***************************************************************************)
(* WalletManager.getBalance                                                *)
(***************************************************************************)
\* (accountInfo).data: free, reserved, and frozen on the chains whose
\* account data has that field.
AccountData(free, reserved, hasFrozen, frozen) ==
  [free |-> Balance(free), reserved |-> Balance(reserved),
   hasFrozen |-> hasFrozen, frozen |-> Balance(frozen)]

\* What system.account(address) holds.
Accounts ==
  LET FreeBalances ==
        { <<"0">>,
          <<"1", "2", "3", "4", "5", "6", "7">>,
          <<"1", "0", "0", "0", "0", "0", "0", "0", "0", "0", "0">>,
          <<"1", "2", "3", "4", "5", "6", "7", "8", "9", "0", "1", "2">>,
          <<"9", "0", "0", "7", "1", "9", "9", "2", "5", "4", "7", "4", "0", "9", "9", "3">> }
      ReservedBalances ==
        { <<"0">>, <<"5", "0", "0">>,
          <<"9", "0", "0", "7", "1", "9", "9", "2", "5", "4", "7", "4", "0", "9", "9", "3">> }
  IN { AccountData(f, r, FALSE, <<"0">>) : f \in FreeBalances, r \in ReservedBalances }
     \cup
     { AccountData(f, r, TRUE, z) : f \in FreeBalances, r \in ReservedBalances,
                                    z \in {<<"0">>, <<"7", "0", "0">>} }

\* registry.getChainProperties(): tokenDecimals and tokenSymbol, each an
\* Option of a list.
ChainProperties ==
  { [hasDecimals |-> FALSE, tokenDecimals |-> <<>>,   hasSymbol |-> FALSE, tokenSymbol |-> <<>>],
    [hasDecimals |-> TRUE,  tokenDecimals |-> <<10>>, hasSymbol |-> TRUE,
     tokenSymbol |-> << <<"D", "O", "T">> >>],
    [hasDecimals |-> TRUE,  tokenDecimals |-> <<12>>, hasSymbol |-> TRUE,
     tokenSymbol |-> << <<"K", "S", "M">> >>],
    [hasDecimals |-> TRUE,  tokenDecimals |-> <<0>>,  hasSymbol |-> TRUE,
     tokenSymbol |-> << <<"W", "N", "D">> >>],
    [hasDecimals |-> TRUE,  tokenDecimals |-> <<>>,   hasSymbol |-> TRUE,
     tokenSymbol |-> <<>>] }

\* chainInfo?.tokenDecimals?.isSome
\*   ? chainInfo.tokenDecimals.unwrap()[0]?.toNumber() || 10 : 10
TokenDecimals(chainInfo) ==
  IF chainInfo.hasDecimals /\ chainInfo.tokenDecimals # <<>> /\ chainInfo.tokenDecimals[1] # 0
    THEN chainInfo.tokenDecimals[1]
    ELSE 10

\* chainInfo?.tokenSymbol?.isSome
\*   ? chainInfo.tokenSymbol.unwrap()[0]?.toString() || 'DOT' : 'DOT'
TokenSymbol(chainInfo) ==
  IF chainInfo.hasSymbol /\ chainInfo.tokenSymbol # <<>> /\ chainInfo.tokenSymbol[1] # <<>>
    THEN chainInfo.tokenSymbol[1]
    ELSE <<"D", "O", "T">>

\* A total that leaves the reserved part out.
BalanceTotalFreeOnly(balance) == BigIntToString(balance.free)

\* balance.free.add(balance.reserved).toString()
BalanceTotal(balance) == BigIntToString(BigAdd(balance.free, balance.reserved))

\* balance.frozen?.toString() || '0'
BalanceFrozen(balance) ==
  IF balance.hasFrozen THEN BigIntToString(balance.frozen) ELSE <<"0">>

NoBalance ==
  [free |-> <<>>, reserved |-> <<>>, frozen |-> <<>>, total |-> <<>>,
   formatted |-> <<>>, unit |-> <<>>]

\* getBalance(address)
GetBalanceResult(balance, chainInfo) ==
  [free |-> BigIntToString(balance.free),
   reserved |-> BigIntToString(balance.reserved),
   frozen |-> BalanceFrozen(balance),
   total |-> BalanceTotal(balance),
   formatted |-> formatBalance(BigIntToString(balance.free),
                               TokenDecimals(chainInfo), TokenSymbol(chainInfo)),
   unit |-> TokenSymbol(chainInfo)]

IdleWallet(account, chainInfo) ==
  [pc |-> "idle", account |-> account, chainInfo |-> chainInfo, result |-> NoBalance]

GetBalance ==
  /\ wal.pc = "idle"
  /\ wal' = [wal EXCEPT !.pc = "done",
                        !.result = GetBalanceResult(wal.account, wal.chainInfo)]
  /\ UNCHANGED <<trk, clock, config, amt, gov, stk, subs, sdk, mgr>>

\* The caller takes the balance.
BalanceReturn ==
  /\ wal.pc = "done"
  /\ wal' = [wal EXCEPT !.pc = "idle", !.result = NoBalance]
  /\ UNCHANGED <<trk, clock, config, amt, gov, stk, subs, sdk, mgr>>

\* The account's balances change on the chain.
AccountChanges(account) ==
  /\ wal.pc = "idle"
  /\ account # wal.account
  /\ wal' = [wal EXCEPT !.account = account]
  /\ UNCHANGED <<trk, clock, config, amt, gov, stk, subs, sdk, mgr>>

(***************************************************************************)
(* The DotStarter facade: connect() and the manager accessors.             *)
(***************************************************************************)
\* What web3Enable finds in the page.
ExtensionSets == { <<>>, <<"polkadot-js">>, <<"polkadot-js", "talisman">> }

Accessors == {"wallet", "tx", "staking", "governance"}

NoAccess == [name |-> "", threw |-> FALSE, message |-> ""]

\* new DotStarter(config): the chain manager exists, the other managers do
\* not. connects counts the calls of connect(), calls the calls made to the
\* node and to the wallet extensions. Providers and the api instances on them are
\* numbered as they are created: apiId is the one the chain manager holds (0: undefined),
\* managersApi the one the wallet, staking and governance managers were
\* constructed with, provider whether the chain manager holds a provider.
NewSdk(nodeUp, installed) ==
  [nodeUp |-> nodeUp, installed |-> installed,
   chainManager |-> TRUE, walletManager |-> FALSE, stakingManager |-> FALSE,
   governanceManager |-> FALSE,
   api |-> "none", apiId |-> 0, provider |-> FALSE, created |-> 0, managersApi |-> 0,
   lastOp |-> "none",
   extensions |-> <<>>,
   connect |-> "none", connectError |-> "", warned |-> FALSE,
   access |-> NoAccess, connects |-> 0, calls |-> 0]

\* An accessor without its guard.
AccessorUnguarded(name, s) == [name |-> name, threw |-> FALSE, message |-> ""]

\* get wallet() / tx() / staking() / governance(): the guard, then an
\* object of closures over the managers.
Accessor(name, s) ==
  LET missing ==
        CASE name = "wallet"     -> ~s.walletManager
          [] name = "tx"         -> ~s.walletManager \/ ~s.chainManager
          [] name = "staking"    -> ~s.stakingManager \/ ~s.walletManager
          [] name = "governance" -> ~s.governanceManager \/ ~s.walletManager
  IN IF missing
       THEN [name |-> name, threw |-> TRUE, message |-> "SDK not connected. Call connect() first."]
       ELSE [name |-> name, threw |-> FALSE, message |-> ""]

\* How many times connect() is called on one instance.
MaxConnects == 2

\* connect() with the node reached: the three managers are created, then
\* walletManager.initialize() runs inside try/catch: its 'No wallet
\* extensions found' error is logged by console.warn and goes no further.
Connected(s) ==
  [s EXCEPT !.api = "connected",
            !.apiId = IF s.api = "connected" THEN @ ELSE s.created + 1,
            !.created = IF s.api = "connected" THEN @ ELSE @ + 1,
            !.provider = TRUE,
            !.managersApi = IF s.api = "connected" THEN s.apiId ELSE s.created + 1,
            !.lastOp = "none",
            !.walletManager = TRUE,
            !.stakingManager = TRUE,
            !.governanceManager = TRUE,
            !.extensions = s.installed,
            !.warned = (s.installed = <<>>),
            !.connect = "resolved",
            !.connectError = "",
            !.access = NoAccess,
            !.connects = @ + 1,
            !.calls = @ + (IF s.api = "connected" THEN 1 ELSE 2)]

\* connect(). Where chainManager.connect() does not reach the node, the
\* provider it created stays in the chain manager and connect() rejects
\* before any manager is created.
Connect ==
  /\ sdk.connects < MaxConnects
  /\ sdk' = IF sdk.api # "connected" /\ ~sdk.nodeUp
              THEN [sdk EXCEPT !.connect = "rejected",
                               !.connectError = "connection failed",
                               !.provider = TRUE,
                               !.created = @ + 1,
                               !.warned = FALSE,
                               !.access = NoAccess,
                               !.lastOp = "none",
                               !.connects = @ + 1,
                               !.calls = @ + 1]
              ELSE Connected(sdk)
  /\ UNCHANGED <<trk, clock, config, amt, gov, stk, subs, wal, mgr>>

\* A disconnect() that lets go of the api alone.
DisconnectedKeepingProvider(s) ==
  [s EXCEPT !.api = "none", !.apiId = 0,
            !.calls = @ + (IF s.apiId # 0 THEN 1 ELSE 0),
            !.access = NoAccess, !.lastOp = "disconnected"]

\* chainManager.disconnect(): the api, if there is one, is disconnected and
\* dropped, then the provider likewise. The managers of the facade stay.
Disconnected(s) ==
  [s EXCEPT !.api = "none", !.apiId = 0, !.provider = FALSE,
            !.calls = @ + (IF s.apiId # 0 THEN 1 ELSE 0) + (IF s.provider THEN 1 ELSE 0),
            !.access = NoAccess, !.lastOp = "disconnected"]

\* disconnect()
Disconnect ==
  /\ sdk' = Disconnected(sdk)
  /\ UNCHANGED <<trk, clock, config, amt, gov, stk, subs, wal, mgr>>

\* tx.transfer, events.* and getChainInfo start with chainManager.getApi(),
\* which calls chainManager.connect() when no connected api is held: a new
\* provider and api are created in the chain manager, and nothing is told to
\* the managers of the facade.
LazyReconnect ==
  /\ sdk.created < MaxConnects
  /\ sdk.api # "connected"
  /\ sdk' = IF sdk.nodeUp
              THEN [sdk EXCEPT !.api = "connected", !.apiId = sdk.created + 1,
                               !.created = @ + 1, !.provider = TRUE,
                               !.lastOp = "reconnected", !.access = NoAccess,
                               !.calls = @ + 1]
              ELSE [sdk EXCEPT !.provider = TRUE, !.created = @ + 1, !.lastOp = "rejected",
                               !.access = NoAccess, !.calls = @ + 1]
  /\ UNCHANGED <<trk, clock, config, amt, gov, stk, subs, wal, mgr>>

\* The application reads dot.wallet, dot.tx, dot.staking or dot.governance.
ReadAccessor(name) ==
  /\ sdk' = [sdk EXCEPT !.access = Accessor(name, sdk)]
  /\ UNCHANGED <<trk, clock, config, amt, gov, stk, subs, wal, mgr>>

\* The node comes up or goes away, extensions are installed or removed.
EnvironmentChanges(nodeUp, installed) ==
  /\ <<nodeUp, installed>> # <<sdk.nodeUp, sdk.installed>>
  /\ sdk' = [sdk EXCEPT !.nodeUp = nodeUp, !.installed = installed]
  /\ UNCHANGED <<trk, clock, config, amt, gov, stk, subs, wal, mgr>>

(***************************************************************************)
(* ChainManager.connect under concurrent callers.                          *)
(***************************************************************************)
\* How many calls of connect() / getApi() are in flight at once.
MaxCallers == 3

\* new ChainManager(): neither api nor provider. Providers are numbered as
\* they are created, and the api created on a provider has its number; live
\* holds the providers created and not disconnected. Each caller is at a
\* point of connect(): idle, creating (suspended at ApiPromise.create),
\* ready (suspended at api.isReady), or done with the api it was given.
IdleManager ==
  [api |-> 0, provider |-> 0, live |-> {}, created |-> 0,
   callers |-> [c \in 1..MaxCallers |-> [pc |-> "idle", mine |-> 0, result |-> 0]]]

\* connect() up to its first await: the api held is returned if there is a
\* connected one; otherwise a provider is created and assigned, and the
\* call suspends at ApiPromise.create. getApi() makes the same test before
\* it calls connect().
CallConnect(c) ==
  /\ mgr.callers[c].pc = "idle"
  /\ mgr' = IF mgr.api # 0
              THEN [mgr EXCEPT !.callers[c] = [pc |-> "done", mine |-> 0, result |-> mgr.api]]
              ELSE [mgr EXCEPT !.provider = mgr.created + 1,
                               !.live = @ \cup {mgr.created + 1},
                               !.created = @ + 1,
                               !.callers[c] = [pc |-> "creating", mine |-> mgr.created + 1,
                                               result |-> 0]]
  /\ UNCHANGED <<trk, clock, config, amt, gov, stk, subs, wal, sdk>>

\* this.api = await ApiPromise.create({ provider }): the api on the
\* provider this call created is assigned.
ApiCreated(c) ==
  /\ mgr.callers[c].pc = "creating"
  /\ mgr' = [mgr EXCEPT !.api = mgr.callers[c].mine, !.callers[c].pc = "ready"]
  /\ UNCHANGED <<trk, clock, config, amt, gov, stk, subs, wal, sdk>>

\* await this.api.isReady; return this.api: the field as it is by then.
ApiReady(c) ==
  /\ mgr.callers[c].pc = "ready"
  /\ mgr' = [mgr EXCEPT !.callers[c].pc = "done", !.callers[c].result = mgr.api]
  /\ UNCHANGED <<trk, clock, config, amt, gov, stk, subs, wal, sdk>>

(***************************************************************************)
(* Specifications.                                                         *)
(***************************************************************************)
\* new DotStarter(): polkadot, the default network.
DefaultChain == [network |-> "polkadot", chainDecimals |-> 10, convictionVoting |-> TRUE]

DefaultGovChain ==
  [hasReferenda |-> TRUE, referenda |-> <<>>, hasDemocracy |-> FALSE, democracy |-> <<>>]

NoSubs == [i \in SubIds |-> [t |-> IdleTracker, stream |-> <<>>]]

DefaultWallet ==
  IdleWallet(AccountData(<<"0">>, <<"0">>, TRUE, <<"0">>),
             [hasDecimals |-> TRUE, tokenDecimals |-> <<10>>, hasSymbol |-> TRUE,
              tokenSymbol |-> << <<"D", "O", "T">> >>])

\* The facade after connect() next to one wallet extension.
DefaultSdk == Connected(NewSdk(TRUE, <<"polkadot-js">>))

\* One submission on a connected SDK instance.
Init ==
  /\ trk = IdleTracker
  /\ clock = 0
  /\ config \in {[timeout |-> ConfigTimeout(t)] : t \in {0, 1, 2}}
  /\ amt = IdleAmtOn(DefaultChain)
  /\ gov = IdleGovOn(DefaultGovChain)
  /\ stk = IdleStk
  /\ subs = NoSubs
  /\ wal = DefaultWallet
  /\ sdk = DefaultSdk
  /\ mgr = IdleManager

Next ==
  \/ \E op \in Ops : Call(op)
  \/ SubmitOk
  \/ \E err \in SubmitErrors : SubmitFail(err)
  \/ \E n \in Notifs : Deliver(n)
  \/ Tick

Spec == Init /\ [][Next]_vars

\* Amount-taking operations on each chain.
AmountInit ==
  /\ trk = IdleTracker
  /\ clock = 0
  /\ config = [timeout |-> DefaultTimeout]
  /\ amt \in {IdleAmtOn(chain) : chain \in Chains}
  /\ gov = IdleGovOn(DefaultGovChain)
  /\ stk = IdleStk
  /\ subs = NoSubs
  /\ wal = DefaultWallet
  /\ sdk = DefaultSdk
  /\ mgr = IdleManager

AmountNext ==
  \/ \E op \in AmountOps, amount \in Amounts : CallOperation(op, amount)
  \/ Return

AmountSpec == AmountInit /\ [][AmountNext]_vars

\* Governance reads on each chain.
GovInit ==
  /\ trk = IdleTracker
  /\ clock = 0
  /\ config = [timeout |-> DefaultTimeout]
  /\ amt = IdleAmtOn(DefaultChain)
  /\ gov \in {IdleGovOn(chain) : chain \in GovChains}
  /\ stk = IdleStk
  /\ subs = NoSubs
  /\ wal = DefaultWallet
  /\ sdk = DefaultSdk
  /\ mgr = IdleManager

GovNext ==
  \/ \E fail \in QueryFailures : GetActiveProposals(fail)
  \/ \E index \in {1, 2, 3, 4, 5}, fail \in QueryFailures :
       GetReferendumDetails(index, fail)
  \/ GovReturn

GovSpec == GovInit /\ [][GovNext]_vars

\* Staking reads while the chain and the account's storage move on.
StakingInit ==
  /\ trk = IdleTracker
  /\ clock = 0
  /\ config = [timeout |-> DefaultTimeout]
  /\ amt = IdleAmtOn(DefaultChain)
  /\ gov = IdleGovOn(DefaultGovChain)
  /\ stk \in {[IdleStk EXCEPT !.ledger = l, !.nominations = nm] :
                l \in Ledgers, nm \in Nominators}
  /\ subs = NoSubs
  /\ wal = DefaultWallet
  /\ sdk = DefaultSdk
  /\ mgr = IdleManager

StakingNext ==
  \/ GetStakingInfo
  \/ StakingReturn
  \/ NextEra
  \/ \E l \in Ledgers, nm \in Nominators : StorageChanges(l, nm)

StakingSpec == StakingInit /\ [][StakingNext]_vars

\* Two submissions in flight, their notifications interleaved.
ConcInit ==
  /\ trk = IdleTracker
  /\ clock = 0
  /\ config = [timeout |-> DefaultTimeout]
  /\ amt = IdleAmtOn(DefaultChain)
  /\ gov = IdleGovOn(DefaultGovChain)
  /\ stk = IdleStk
  /\ subs = NoSubs
  /\ wal = DefaultWallet
  /\ sdk = DefaultSdk
  /\ mgr = IdleManager

ConcNext ==
  \/ \E i \in SubIds : ConcStart(i)
  \/ \E i \in SubIds, n \in ConcNotifs : ConcDeliver(i, n)

ConcSpec == ConcInit /\ [][ConcNext]_vars

\* Balance reads of accounts on chains with different properties.
WalletInit ==
  /\ trk = IdleTracker
  /\ clock = 0
  /\ config = [timeout |-> DefaultTimeout]
  /\ amt = IdleAmtOn(DefaultChain)
  /\ gov = IdleGovOn(DefaultGovChain)
  /\ stk = IdleStk
  /\ subs = NoSubs
  /\ wal \in {IdleWallet(a, c) : a \in Accounts, c \in ChainProperties}
  /\ sdk = DefaultSdk
  /\ mgr = IdleManager

WalletNext ==
  \/ GetBalance
  \/ BalanceReturn
  \/ \E a \in Accounts : AccountChanges(a)

WalletSpec == WalletInit /\ [][WalletNext]_vars

\* A new DotStarter instance: connect, disconnect and accessor reads.
FacadeInit ==
  /\ trk = IdleTracker
  /\ clock = 0
  /\ config = [timeout |-> DefaultTimeout]
  /\ amt = IdleAmtOn(DefaultChain)
  /\ gov = IdleGovOn(DefaultGovChain)
  /\ stk = IdleStk
  /\ subs = NoSubs
  /\ wal = DefaultWallet
  /\ sdk \in {NewSdk(n, e) : n \in BOOLEAN, e \in ExtensionSets}
  /\ mgr = IdleManager

FacadeNext ==
  \/ Connect
  \/ Disconnect
  \/ LazyReconnect
  \/ \E name \in Accessors : ReadAccessor(name)
  \/ \E n \in BOOLEAN, e \in ExtensionSets : EnvironmentChanges(n, e)

FacadeSpec == FacadeInit /\ [][FacadeNext]_vars

\* One ChainManager and the calls of connect() / getApi() made on it before
\* any of them has returned.
ChainInit ==
  /\ trk = IdleTracker
  /\ clock = 0
  /\ config = [timeout |-> DefaultTimeout]
  /\ amt = IdleAmtOn(DefaultChain)
  /\ gov = IdleGovOn(DefaultGovChain)
  /\ stk = IdleStk
  /\ subs = NoSubs
  /\ wal = DefaultWallet
  /\ sdk = DefaultSdk
  /\ mgr = IdleManager

ChainNext ==
  \E c \in 1..MaxCallers :
    \/ CallConnect(c)
    \/ ApiCreated(c)
    \/ ApiReady(c)

ChainSpec == ChainInit /\ [][ChainNext]_vars

(***************************************************************************)
(* The submission's lifecycle: claims.                                     *)
(***************************************************************************)

C2_ReleasedAfterOutcome == trk.lateCalls = 0

\* C3: an InBlock notification without dispatch error delivered to an
\* unresolved submission resolves it there and then, with the extrinsic hash
\* (and for transfer the block hash and the events of that notification);
\* a Finalized notification never resolves a submission, and only an InBlock
\* notification does.
C3_ResolvesAtInBlock ==
  [][ /\ \A n \in Notifs :
           (Deliver(n) /\ trk.state = "pending") =>
             /\ (n.type = "InBlock" /\ n.dispatchError.kind = "none") =>
                  /\ trk'.state = "fulfilled"
                  /\ trk'.value.hash = TxHash(trk.op)
                  /\ trk.op = "transfer" =>
                       /\ trk'.value.success
                       /\ trk'.value.blockHash = n.blockHash
                       /\ Len(trk'.value.events) = Len(n.events)
                       /\ \A i \in 1..Len(n.events) :
                            /\ trk'.value.events[i].phase = n.events[i].phase
                            /\ trk'.value.events[i].event = n.events[i].event
             /\ n.type = "Finalized" => trk'.state = "pending"
      /\ (trk.state = "pending" /\ trk'.state = "fulfilled") =>
           \E n \in Notifs : n.type = "InBlock" /\ Deliver(n)
    ]_vars

\* A submission resolved while its stream is still open: no Finalized (nor
\* any other terminal status) has been delivered.
C3_Witness == trk.state = "fulfilled" /\ ~trk.ended /\ trk.value.hash = TxHash(trk.op)

\* C4: an InBlock notification with a module dispatch error the registry
\* resolves to {pallet, name, docs}, delivered to an unresolved submission,
\* rejects it with "<pallet>.<name>: <docs>"; the request never reports
\* success afterwards.
C4_DecodedModuleError ==
  [][ /\ \A n \in Notifs :
           (/\ Deliver(n)
            /\ trk.state = "pending"
            /\ n.type = "InBlock"
            /\ n.dispatchError.kind = "module"
            /\ RegistryResolves(n.dispatchError)) =>
             /\ trk'.state = "rejected"
             /\ trk'.value.message =
                  "balances.InsufficientBalance: Balance too low to send value"
      /\ trk.state = "rejected" => trk'.state = "rejected"
    ]_vars

C4_Witness ==
  /\ trk.state = "rejected"
  /\ trk.seenInBlock
  /\ trk.value.message = "balances.InsufficientBalance: Balance too low to send value"

\* C5: an InBlock notification with a module dispatch error the registry
\* cannot resolve still rejects the unresolved submission, with the generic
\* message "Dispatch failed"; the lookup failure does not leave the callback.
C5_GenericOnLookupFailure ==
  [][ \A n \in Notifs :
        (/\ Deliver(n)
         /\ trk.state = "pending"
         /\ n.type = "InBlock"
         /\ n.dispatchError.kind = "module"
         /\ ~RegistryResolves(n.dispatchError)) =>
          /\ trk'.state = "rejected"
          /\ trk'.value.message = "Dispatch failed"
          /\ trk'.escaped = trk.escaped
    ]_vars

\* C6: a Dropped, Invalid or Error status delivered before any InBlock
\* rejects the submission with a reason that names the status type.
C6_RejectedWithStatus ==
  [][ \A n \in Notifs :
        (/\ Deliver(n)
         /\ n.type \in {"Dropped", "Invalid", "Error"}
         /\ ~trk.seenInBlock) =>
          /\ trk'.state = "rejected"
          /\ trk'.value.message = FailPrefix(trk.op) \o " with status: " \o n.type
    ]_vars

C6_Witness ==
  /\ trk.state = "rejected"
  /\ ~trk.seenInBlock
  /\ trk.ended
  /\ trk.value.message = "Bonding failed with status: Dropped"

\* C7: while a submission is in flight (subscribed, no outcome, stream
\* open) the caller holds the means to release its subscription.
C7_CallerCanCancel ==
  (trk.sub = "active" /\ trk.state = "pending" /\ ~trk.ended) =>
    trk.unsub = "caller"

\* C8: no timeout is enforced: a submission whose submit call did not fail
\* and whose stream held neither an InBlock nor a terminal status has no
\* outcome, whatever the configured timeout and however much time passed.
C8_NoInternalTimeout ==
  (trk.sub # "failed" /\ ~trk.seenInBlock /\ ~trk.ended) => trk.state = "pending"

\* A subscribed submission that saw only pending statuses and is still
\* unresolved after more time than the configured timeout.
C8_Witness ==
  /\ trk.sub = "active"
  /\ trk.nDelivered >= 2
  /\ ~trk.seenInBlock
  /\ ~trk.ended
  /\ clock > config.timeout
  /\ trk.state = "pending"

(***************************************************************************)
(* The submission's lifecycle: further claims.                             *)
(***************************************************************************)

\* C24: once a terminal status (Finalized, Dropped, Invalid, Error, Usurped,
\* FinalityTimeout) has been processed for a submission, the submission has
\* an outcome, also when no InBlock preceded it.
C24_TerminalGivesOutcome ==
  trk.ended => trk.state # "pending"

\* C25: an InBlock delivered after an earlier InBlock overwrites it: the
\* outcome after the later InBlock is the one that InBlock gives (its
\* verdict, and for transfer its block hash and events).
C25_LatestInBlockWins ==
  [][ \A n \in Notifs :
        (Deliver(n) /\ n.type = "InBlock" /\ trk.seenInBlock) =>
          IF n.dispatchError.kind = "none"
            THEN /\ trk'.state = "fulfilled"
                 /\ trk.op = "transfer" =>
                      /\ trk'.value.blockHash = n.blockHash
                      /\ Len(trk'.value.events) = Len(n.events)
            ELSE trk'.state = "rejected"
    ]_vars

\* C26: an InBlock notification with a dispatch error that is not a module
\* error, delivered to an unresolved submission, rejects it with the
\* operation's generic message, without a registry lookup; a submission is
\* never resolved as success by an InBlock that carries a dispatch error.
C26_NonModuleGeneric ==
  [][ \A n \in Notifs :
        /\ (/\ Deliver(n)
            /\ trk.state = "pending"
            /\ n.type = "InBlock"
            /\ n.dispatchError.kind = "other") =>
             /\ trk'.state = "rejected"
             /\ trk'.value.message = FailPrefix(trk.op)
             /\ trk'.lookups = trk.lookups
        /\ (/\ Deliver(n)
            /\ n.type = "InBlock"
            /\ n.dispatchError.kind = "other") =>
             /\ trk'.lookups = trk.lookups
             /\ trk.state # "fulfilled" => trk'.state # "fulfilled"
    ]_vars

\* A nomination rejected at InBlock with its generic message, the registry
\* never consulted.
C26_Witness ==
  /\ trk.op = "nominate"
  /\ trk.state = "rejected"
  /\ trk.seenInBlock
  /\ trk.lookups = 0
  /\ trk.value.message = "Nomination failed"

\* C29: when signAndSend itself fails, the operation, which has no outcome
\* yet, is rejected with that error; a submission whose signAndSend failed
\* is never resolved as success.
C29_SubmitFailureRejects ==
  /\ [][ \A err \in SubmitErrors :
           (SubmitFail(err) /\ trk.state = "pending") =>
             /\ trk'.state = "rejected"
             /\ trk'.value.message = err
       ]_vars
  /\ [](trk.sub = "failed" => trk.state = "rejected")

C29_Witness ==
  /\ trk.sub = "failed"
  /\ trk.state = "rejected"
  /\ trk.value.message = "1010: Invalid Transaction"
  /\ trk.nDelivered = 0

\* C34: every TransferResult that transfer resolves with has success true
\* and a block hash; a dispatch failure is reported by rejecting, so no
\* fulfilled transfer holds success = false.
C34_ResolvedTransferSucceeded ==
  (trk.op = "transfer" /\ trk.state = "fulfilled") =>
    /\ trk.value.success
    /\ trk.value.blockHash \in {"0xb1", "0xb2"}
    /\ trk.value.hash = TxHash("transfer")

\* A transfer fulfilled at block 0xb2 after a failed dispatch in another
\* block was seen and ignored.
C34_Witness ==
  /\ trk.op = "transfer"
  /\ trk.state = "fulfilled"
  /\ trk.value.success
  /\ trk.value.blockHash = "0xb2"
  /\ trk.ignored > 0

(***************************************************************************)
(* Amount conversion: claims.                                              *)
(***************************************************************************)

\* C9: in every operation that takes an amount, a string amount is submitted
\* as exactly the integer it spells, with no multiplication by 10^decimals.
C9_StringAmountExact ==
  (amt.pc = "submitted" /\ amt.amount.kind = "string" /\ amt.call.hasAmount) =>
    amt.call.amount = StringToBigInt(amt.amount.chars).value

\* floor(x * 10^decimals) in arbitrary precision, x being the value of the
\* double.
ExactFloor(x, decimals) ==
  BigIntOfFloor([neg |-> x.neg, man |-> BMul(x.man, Pow10(decimals)), exp |-> x.exp])

\* C10: for a non-negative numeric amount x and decimals in [0,18], the
\* magnitude submitted is floor(x * 10^decimals) computed exactly.
C10_NumberAmountExactFloor ==
  (/\ amt.pc = "submitted"
   /\ amt.amount.kind = "number"
   /\ ~amt.amount.neg
   /\ amt.call.hasAmount
   /\ amt.decimals \in 0..18) =>
    amt.call.amount = ExactFloor(amt.amount, amt.decimals)

\* A negative amount: a number below zero, or a string that spells a decimal
\* integer with a minus sign.
NegativeInput(amount) ==
  IF amount.kind = "number"
    THEN amount.neg /\ amount.man # <<>>
    ELSE /\ StringToBigInt(amount.chars).ok
         /\ Trim(amount.chars) # <<>>
         /\ Head(Trim(amount.chars)) = "-"

\* C11: a negative amount given to an amount-taking operation is rejected
\* with an error before submission: the operation ends rejected and no call
\* is built with it or handed to signAndSend.
C11_NegativeRejected ==
  (amt.pc # "idle" /\ NegativeInput(amt.amount)) =>
    (amt.pc = "rejected" /\ amt.call = NoCall)


\* C28: for the same amount on the same chain every amount-taking operation
\* submits the same magnitude: whatever an operation submitted is what each
\* of the others converts that amount to.
C28_SameConversionEverywhere ==
  (amt.pc = "submitted" /\ amt.call.hasAmount) =>
    \A op \in AmountOps :
      /\ ConvertAmount(op, amt.amount, amt.chain).ok
      /\ ConvertAmount(op, amt.amount, amt.chain).value = amt.call.amount

\* C36: voteOnReferendum builds the vote for convictionVoting whenever the
\* chain has that pallet and for legacy democracy only when it has not, and
\* in both cases the submitted vote carries the caller's direction,
\* conviction and amount.
C36_VoteCarriesAllArguments ==
  (amt.pc = "submitted" /\ amt.op = "vote") =>
    /\ amt.call.pallet = IF amt.chain.convictionVoting THEN "convictionVoting" ELSE "democracy"
    /\ amt.voteArg.direction = amt.vote
    /\ amt.voteArg.conviction = amt.conviction
    /\ amt.voteArg.hasBalance
    /\ amt.call.hasAmount
    /\ amt.call.amount = ConvertAmount("vote", amt.amount, amt.chain).value

(***************************************************************************)
(* Governance reads: claims.                                               *)
(***************************************************************************)
InSeq(x, s) == \E i \in 1..Len(s) : s[i] = x

Listed == gov.pc = "done" /\ gov.op = "getActiveProposals"

Detailed == gov.pc = "done" /\ gov.op = "getReferendumDetails"

\* The entries of the storage map getActiveProposals reads on a chain.
SelectedEntries(chain) ==
  IF chain.hasReferenda THEN chain.referenda ELSE chain.democracy

\* C12: getActiveProposals asks the current storage map first and the legacy
\* one only when the current one is absent on the chain; a current map that
\* is there but empty gives an empty listing and no legacy query.
C12_LegacyOnlyWhenAbsent ==
  Listed =>
    /\ gov.chain.hasReferenda => gov.queried = <<"referenda">>
    /\ InSeq("democracy", gov.queried) => ~gov.chain.hasReferenda
    /\ (gov.chain.hasReferenda /\ gov.chain.referenda = <<>>) => gov.result = <<>>

\* An empty current map next to a legacy map with ongoing referenda.
C12_Witness ==
  /\ Listed
  /\ gov.chain.hasReferenda
  /\ gov.chain.referenda = <<>>
  /\ gov.chain.hasDemocracy
  /\ \E i \in 1..Len(gov.chain.democracy) :
       gov.chain.democracy[i].decodes /\ gov.chain.democracy[i].state = "Ongoing"
  /\ ~gov.warned
  /\ gov.result = <<>>
  /\ gov.queried = <<"referenda">>

\* C13: on a chain that has the current schema, getReferendumDetails never
\* consults the legacy schema, and what it returns is the ongoing entry of
\* the current schema for that index, or nothing.
C13_CurrentSchemaAlone ==
  (Detailed /\ gov.chain.hasReferenda) =>
    /\ ~InSeq("democracy", gov.queried)
    /\ gov.result # <<>> =>
         /\ gov.result[1].description = "OpenGov Referendum"
         /\ \E i \in 1..Len(gov.chain.referenda) :
              /\ gov.chain.referenda[i].index = gov.index
              /\ gov.chain.referenda[i].state = "Ongoing"

\* The entries a listing has to hold: those that decode and are ongoing.
Surfaced(entries) ==
  SelectSeq(entries, LAMBDA e : e.decodes /\ e.state = "Ongoing")

\* C14: in getActiveProposals an entry that fails to decode is left out and
\* nothing else is: whenever the storage query itself succeeded, the listing
\* holds the other ongoing entries, each under its index and key, in the
\* order of the storage entries.
C14_BadEntrySkipped ==
  (Listed /\ ~gov.warned) =>
    LET expected == Surfaced(SelectedEntries(gov.chain))
    IN /\ Len(gov.result) = Len(expected)
       /\ \A i \in 1..Len(expected) :
            /\ gov.result[i].index = expected[i].index
            /\ gov.result[i].hash = expected[i].keyHex

\* A listing of two referenda from a map with an entry that does not decode
\* between them.
C14_Witness ==
  /\ Listed
  /\ ~gov.warned
  /\ \E i \in 1..Len(SelectedEntries(gov.chain)) : ~SelectedEntries(gov.chain)[i].decodes
  /\ Len(gov.result) = 2
  /\ gov.result[1].index = 1
  /\ gov.result[2].index = 4

\* The storage map a returned proposal was normalised from.
SchemaOf(p, chain) ==
  IF p.description = "OpenGov Referendum" THEN chain.referenda ELSE chain.democracy

\* C15: every proposal getActiveProposals or getReferendumDetails returns
\* has status 'Active' and stands for an on-chain entry in state ongoing;
\* getActiveProposals returns every ongoing decodable entry of the schema it
\* selected.
C15_OnlyOngoingActive ==
  /\ gov.pc = "done" =>
       \A k \in 1..Len(gov.result) :
         /\ gov.result[k].status = "Active"
         /\ \E i \in 1..Len(SchemaOf(gov.result[k], gov.chain)) :
              /\ SchemaOf(gov.result[k], gov.chain)[i].index = gov.result[k].index
              /\ SchemaOf(gov.result[k], gov.chain)[i].state = "Ongoing"
  /\ (Listed /\ ~gov.warned) =>
       \A i \in 1..Len(SelectedEntries(gov.chain)) :
         LET e == SelectedEntries(gov.chain)[i]
         IN (e.decodes /\ e.state = "Ongoing") =>
              \E k \in 1..Len(gov.result) : gov.result[k].index = e.index

\* A listing from a current map that also holds a decodable entry in another
\* state, which is not listed.
C15_Witness ==
  /\ Listed
  /\ gov.chain.hasReferenda
  /\ gov.result # <<>>
  /\ \E i \in 1..Len(gov.chain.referenda) :
       /\ gov.chain.referenda[i].decodes
       /\ gov.chain.referenda[i].state \in {"Approved", "Rejected"}
       /\ \A k \in 1..Len(gov.result) :
            gov.result[k].index # gov.chain.referenda[i].index

\* C16: a proposal normalised from the legacy schema has author "Democracy"
\* and deposit "0"; one normalised from the current schema has the submitter
\* and the deposit amount of its on-chain entry wherever the entry has them.
C16_AuthorAndDeposit ==
  gov.pc = "done" =>
    \A k \in 1..Len(gov.result) :
      LET p == gov.result[k]
      IN IF p.description = "Legacy Democracy Referendum"
           THEN p.author = "Democracy" /\ p.deposit = "0"
           ELSE \A i \in 1..Len(gov.chain.referenda) :
                  LET e == gov.chain.referenda[i]
                  IN e.index = p.index =>
                       /\ e.who # "" => p.author = e.who
                       /\ e.amount # "" => p.deposit = e.amount

\* Whether the current-schema query of the call failed.
CurrentQueryFailed ==
  /\ gov.chain.hasReferenda
  /\ \/ gov.fail = "referenda"
     \/ /\ Detailed
        /\ \E i \in 1..Len(gov.chain.referenda) :
             /\ gov.chain.referenda[i].index = gov.index
             /\ ~gov.chain.referenda[i].decodes

\* C27: getActiveProposals and getReferendumDetails never fail towards the
\* caller: a failure of a query is caught and gives the empty list / the
\* absent result, and after a failure of the current-schema query the legacy
\* schema is not queried.
C27_FailuresRecovered ==
  gov.pc = "done" =>
    /\ ~gov.threw
    /\ gov.warned => gov.result = <<>>
    /\ CurrentQueryFailed =>
         /\ gov.warned
         /\ gov.result = <<>>
         /\ gov.queried = <<"referenda">>

\* The current-schema query failed on a chain whose legacy schema holds the
\* index as an ongoing referendum.
C27_Witness ==
  /\ Detailed
  /\ CurrentQueryFailed
  /\ gov.fail = "referenda"
  /\ gov.chain.hasDemocracy
  /\ \E i \in 1..Len(gov.chain.democracy) :
       /\ gov.chain.democracy[i].index = gov.index
       /\ gov.chain.democracy[i].decodes
       /\ gov.chain.democracy[i].state = "Ongoing"
  /\ gov.result = <<>>
  /\ gov.warned

(***************************************************************************)
(* The staking view: claims.                                               *)
(***************************************************************************)
Viewed == stk.pc = "done"

\* The sum of the on-chain values of the chunks with era <= currentEra, by
\* integer addition.
RECURSIVE ExactRedeemable(_, _, _)
ExactRedeemable(unlocking, currentEra, i) ==
  IF i > Len(unlocking) THEN BigZero
  ELSE IF unlocking[i].era <= currentEra
    THEN BigAdd(unlocking[i].value, ExactRedeemable(unlocking, currentEra, i + 1))
    ELSE ExactRedeemable(unlocking, currentEra, i + 1)

ExampleLedger ==
  Ledger(<<"1", "0", "0", "0">>, << Chunk(<<"1", "0", "0">>, 5), Chunk(<<"5", "0">>, 10) >>)

\* C17: the redeemable amount getStakingInfo returns is the exact integer
\* sum of the values of exactly the unlocking chunks with era <= currentEra,
\* of the ledger and the era as they are at that call: chunks
\* [(100,5),(50,10)] give 0 at era 4, 100 at era 7 and 150 at era 10.
C17_RedeemableExactSum ==
  (Viewed /\ stk.ledger.isSome) =>
    /\ stk.result.redeemable =
         BigIntToString(ExactRedeemable(stk.ledger.unlocking, stk.era, 1))
    /\ stk.ledger = ExampleLedger =>
         /\ stk.era = 4 => stk.result.redeemable = <<"0">>
         /\ stk.era = 7 => stk.result.redeemable = <<"1", "0", "0">>
         /\ stk.era = 10 => stk.result.redeemable = <<"1", "5", "0">>

\* The example ledger viewed at era 10, after an earlier view gave 100.
C17_Witness ==
  /\ Viewed
  /\ stk.ledger = ExampleLedger
  /\ stk.era = 10
  /\ stk.last = <<"1", "0", "0">>
  /\ stk.result.redeemable = <<"1", "5", "0">>

\* C18: without a staking ledger the view is the zero-value one: bonded
\* '0', no unbonding, redeemable '0' and no nomination targets, whatever the
\* nominators storage holds.
C18_ZeroViewWithoutLedger ==
  (Viewed /\ ~stk.ledger.isSome) =>
    /\ stk.result.bonded = <<"0">>
    /\ stk.result.unbonding = <<>>
    /\ stk.result.redeemable = <<"0">>
    /\ ~stk.result.hasNominations
    /\ stk.result.nominations = <<>>

\* C19: the unbonding list holds exactly the unlocking chunks of the ledger,
\* each with its amount and era, in the ledger's order.
C19_UnbondingVerbatim ==
  (Viewed /\ stk.ledger.isSome) =>
    /\ Len(stk.result.unbonding) = Len(stk.ledger.unlocking)
    /\ \A i \in 1..Len(stk.ledger.unlocking) :
         /\ StringToBigInt(stk.result.unbonding[i].value).ok
         /\ StringToBigInt(stk.result.unbonding[i].value).value =
              stk.ledger.unlocking[i].value
         /\ stk.result.unbonding[i].era = stk.ledger.unlocking[i].era

\* A ledger of three chunks not ordered by era, one of them redeemable and
\* two not, all three in the view.
C19_Witness ==
  /\ Viewed
  /\ Len(stk.ledger.unlocking) = 3
  /\ stk.ledger.unlocking[1].era > stk.ledger.unlocking[2].era
  /\ stk.ledger.unlocking[2].era <= stk.era
  /\ stk.ledger.unlocking[1].era > stk.era
  /\ Len(stk.result.unbonding) = 3
  /\ stk.result.unbonding[2].value = <<"1", "0", "0">>

\* a <= b for two canonical magnitudes (limbs, least significant first).
MagLeq(a, b) ==
  \/ Len(a) < Len(b)
  \/ /\ Len(a) = Len(b)
     /\ \/ a = b
        \/ LET k == CHOOSE i \in 1..Len(a) :
                      a[i] # b[i] /\ \A j \in (i + 1)..Len(a) : a[j] = b[j]
           IN a[k] < b[k]

\* x <= y for two amounts in decimal digits.
AmountLeq(x, y) == MagLeq(StringToBigInt(x).value.mag, StringToBigInt(y).value.mag)

\* The sum of all the unlocking chunks of the ledger on the chain.
UnbondingSum ==
  BigIntToString(ExactRedeemable(stk.ledger.unlocking, MaxEra + 1, 1))

\* C35: for every ledger and current era the redeemable amount returned is
\* at most the sum of all unbonding chunk values, is not smaller than what
\* the same ledger gives at any earlier era, and is the full unbonding sum
\* once the current era has reached the largest chunk era.
C35_RedeemableBoundedMonotone ==
  Viewed =>
    /\ AmountLeq(stk.result.redeemable, UnbondingSum)
    /\ \A e \in 0..stk.era :
         AmountLeq(Redeemable(Unbonding(stk.ledger), e), stk.result.redeemable)
    /\ (\A i \in 1..Len(stk.ledger.unlocking) : stk.ledger.unlocking[i].era <= stk.era) =>
         stk.result.redeemable = UnbondingSum

\* The ledger with two chunks of 2^53 + 1 viewed at era 9, the largest chunk
\* era, after an earlier view gave one chunk: the full sum.
C35_Witness ==
  /\ Viewed
  /\ stk.era = 9
  /\ Len(stk.ledger.unlocking) = 3
  /\ stk.ledger.unlocking[3].era = 9
  /\ stk.last = <<"9", "0", "0", "7", "1", "9", "9", "2", "5", "4", "7", "4", "0", "9", "9", "3">>
  /\ stk.result.redeemable =
       <<"1", "8", "0", "1", "4", "3", "9", "8", "5", "0", "9", "4", "8", "1", "9", "8", "6">>

(***************************************************************************)
(* Submissions in flight at once: claims.                                  *)
(***************************************************************************)
Started(i) ==
  [IdleTracker EXCEPT !.op = OpOf(i), !.sub = "active", !.unsub = "discarded"]

\* The same submission tracked alone: the callback applied to its stream.
RECURSIVE TrackedAlone(_, _, _)
TrackedAlone(t, stream, i) ==
  IF i > Len(stream) THEN t
  ELSE TrackedAlone(StatusCallback(t, stream[i]), stream, i + 1)

\* C20: under every interleaving of the notifications of the submissions in
\* flight, each submission's outcome is the one its own stream gives it when
\* it is tracked alone.
C20_OutcomeOfOwnStream ==
  \A i \in SubIds :
    subs[i].t.sub = "active" =>
      LET alone == TrackedAlone(Started(i), subs[i].stream, 1)
      IN /\ subs[i].t.state = alone.state
         /\ subs[i].t.value = alone.value
         /\ subs[i].t.settles = alone.settles

\* Two submissions with interleaved streams and different outcomes: the
\* transfer included, the bond rejected with a decoded module error.
C20_Witness ==
  /\ subs[1].t.state = "fulfilled"
  /\ subs[2].t.state = "rejected"
  /\ Len(subs[1].stream) = 2
  /\ Len(subs[2].stream) = 2
  /\ subs[1].stream[1].type = "Ready"
  /\ subs[2].stream[1].type = "Ready"
  /\ subs[2].t.value.message = "balances.InsufficientBalance: Balance too low to send value"


(***************************************************************************)
(* The balance view and the facade: claims.                                *)
(***************************************************************************)
BalanceRead == wal.pc = "done"

C22_ConnectFailsWithoutExtension ==
  (sdk.connect # "none" /\ sdk.api = "connected" /\ sdk.extensions = <<>>) =>
    /\ sdk.connect = "rejected"
    /\ sdk.connectError =
         "No wallet extensions found. Please install Polkadot.js or Talisman extension."

\* C23: the formatted string of a balance parses, through the string path of
\* the amount conversion, to the magnitude it was built from.
C23_FormattedRoundTrips ==
  BalanceRead =>
    /\ StringToBigInt(wal.result.formatted).ok
    /\ StringToBigInt(wal.result.formatted).value = wal.account.free

\* C30: while the managers have not been created, reading the wallet, tx,
\* staking or governance accessor throws 'SDK not connected. Call connect()
\* first.' and calls neither the node nor the wallet; once a connect() has
\* succeeded, none of them throws.
C30_AccessorGuards ==
  [][ \A name \in Accessors :
        ReadAccessor(name) =>
          /\ sdk'.calls = sdk.calls
          /\ (~sdk.walletManager /\ ~sdk.stakingManager /\ ~sdk.governanceManager) =>
               /\ sdk'.access.threw
               /\ sdk'.access.message = "SDK not connected. Call connect() first."
          /\ (sdk.connect = "resolved" \/ sdk.walletManager) => ~sdk'.access.threw
    ]_vars

\* The governance accessor read on an instance whose only connect() failed.
C30_Witness ==
  /\ sdk.connect = "rejected"
  /\ ~sdk.governanceManager
  /\ sdk.access.name = "governance"
  /\ sdk.access.threw
  /\ sdk.access.message = "SDK not connected. Call connect() first."

\* C31: whenever the chain manager holds a connected api, the wallet,
\* staking and governance managers reachable through the facade hold that
\* same api instance, after any sequence of connect(), disconnect() and
\* lazily reconnecting operations.
C31_ManagersOnCurrentApi ==
  (sdk.api = "connected" /\ sdk.walletManager /\ sdk.stakingManager
     /\ sdk.governanceManager) =>
    sdk.managersApi = sdk.apiId

\* C32: a chain manager owns at most one live provider/api pair: under any
\* interleaving of concurrent connect() / getApi() calls no provider is
\* created and left live without being the one the manager holds, and all
\* callers are given the same api instance.
C32_OneLiveProvider ==
  /\ mgr.live \subseteq {mgr.provider}
  /\ \A c, d \in 1..MaxCallers :
       (mgr.callers[c].pc = "done" /\ mgr.callers[d].pc = "done") =>
         mgr.callers[c].result = mgr.callers[d].result

\* C33: after disconnect() has completed isConnected() is false and the
\* chain manager holds neither api nor provider; a disconnect() on an
\* instance that holds nothing changes nothing, makes no call and does not
\* fail.
C33_DisconnectClears ==
  [][ Disconnect =>
        /\ sdk'.api = "none"
        /\ sdk'.apiId = 0
        /\ ~sdk'.provider
        /\ (sdk.apiId = 0 /\ ~sdk.provider) =>
             /\ sdk'.calls = sdk.calls
             /\ sdk'.managersApi = sdk.managersApi
             /\ sdk'.created = sdk.created
    ]_vars

\* A disconnect() after a connect() that created the managers on api 1.
C33_Witness ==
  /\ sdk.lastOp = "disconnected"
  /\ sdk.connect = "resolved"
  /\ sdk.managersApi = 1
  /\ sdk.api = "none"
  /\ ~sdk.provider

=============================================================================
